---------------------------- MODULE Spec2Model ----------------------------
(***************************************************************************)
(* Checkpoint engine of Gently: the tier promotion engine of               *)
(* sdk/python-models/gently_tiers.py and the stamp codec of                *)
(* sdk/python-models/stamp.py.                                             *)
(*                                                                         *)
(* Python strings are sequences of one-character strings.  A glyph that is *)
(* one code point in Python is one element, written by its code point.     *)
(* A reference to an object held in a list is the object's position in     *)
(* that list (the lists are append-only); None is 0.                       *)
(***************************************************************************)
EXTENDS Integers, Sequences, FiniteSets, TLC

VARIABLES
    \* gently_tiers.Project
    gates, tiers, artifacts, bucket,
    \* the last call made on the Project and what it returned
    last,
    \* how many calls and assignments the caller has made
    calls,
    \* two unsynchronised callers of Project.inject: position and locals
    pc, frame, overlap,
    \* stamp.Stamp codec: the record, its compact line, the parse result
    stamp, line, parsed, phase,
    \* the JSON record Stamp.save has written
    saved,
    \* gently_model.Project
    workbench,
    \* the windows of gently_windows
    windows,
    \* gently_unified.GentlyApp
    app

projVars == <<gates, tiers, artifacts, bucket, last, calls>>
thrVars == <<pc, frame, overlap>>
codecVars == <<stamp, line, parsed, phase>>
extVars == <<saved, workbench, windows, app>>
vars == <<gates, tiers, artifacts, bucket, last, calls, pc, frame, overlap,
          stamp, line, parsed, phase, saved, workbench, windows, app>>

----------------------------------------------------------------------------
\* Bounds of the model

\* most calls and assignments a caller makes on one Project
MaxCalls == 5
\* most artifacts collected before two callers inject at once
MaxStaged == 2

None == 0

----------------------------------------------------------------------------
\* Python str operations

Min(a, b) == IF a < b THEN a ELSE b

\* s[:n]
Take(s, n) == SubSeq(s, 1, Min(n, Len(s)))

\* s[n:]
Drop(s, n) == SubSeq(s, n + 1, Len(s))

\* s.startswith(p)
StartsWith(s, p) == Len(s) >= Len(p) /\ SubSeq(s, 1, Len(p)) = p

\* s.endswith(p)
EndsWith(s, p) ==
    Len(s) >= Len(p) /\ SubSeq(s, Len(s) - Len(p) + 1, Len(s)) = p

\* s.replace(a, b) for one-character a and b
Replace(s, a, b) == [i \in 1..Len(s) |-> IF s[i] = a THEN b ELSE s[i]]

\* s.split(c) for a one-character separator
RECURSIVE Split(_, _)
Split(s, c) ==
    IF \A i \in 1..Len(s) : s[i] # c
    THEN <<s>>
    ELSE LET i == CHOOSE k \in 1..Len(s) :
                    s[k] = c /\ \A j \in 1..(k - 1) : s[j] # c
         IN <<SubSeq(s, 1, i - 1)>> \o Split(Drop(s, i), c)

\* "".join(parts)
RECURSIVE Concat(_)
Concat(parts) ==
    IF parts = <<>> THEN <<>> ELSE Head(parts) \o Concat(Tail(parts))

\* c.join(parts)
RECURSIVE Join(_, _)
Join(parts, c) ==
    IF parts = <<>> THEN <<>>
    ELSE IF Len(parts) = 1 THEN parts[1]
    ELSE parts[1] \o <<c>> \o Join(Tail(parts), c)

\* [p for p in parts if p]
RECURSIVE NonEmpty(_)
NonEmpty(parts) ==
    IF parts = <<>> THEN <<>>
    ELSE IF Head(parts) = <<>> THEN NonEmpty(Tail(parts))
    ELSE <<Head(parts)>> \o NonEmpty(Tail(parts))

DigitChars == <<"0", "1", "2", "3", "4", "5", "6", "7", "8", "9">>

IsDigit(c) == \E d \in 1..10 : DigitChars[d] = c

DigitVal(c) == (CHOOSE d \in 1..10 : DigitChars[d] = c) - 1

\* str(n) of a non-negative int
RECURSIVE StrNat(_)
StrNat(n) ==
    IF n < 10 THEN <<DigitChars[n + 1]>>
    ELSE StrNat(n \div 10) \o <<DigitChars[(n % 10) + 1]>>

\* str(n), the text an f-string renders for an int
Str(n) == IF n < 0 THEN <<"-">> \o StrNat(0 - n) ELSE StrNat(n)

----------------------------------------------------------------------------
\* Glyphs (one code point each)

TagBranch == "U+1F33F"
TagDepth == "U+1F4CD"
TagParent == "U+2B06"
TagState == "U+26A1"
TagGates == "U+1F512"
TagPin == "U+1F4CC"
TagLook == "U+1F441"
TagChain == "U+1F517"
TagTime == "U+23F1"

GlyphOpen == "U+25CB"
GlyphHalf == "U+25D0"
GlyphYes == "U+25CF"
GlyphNo == "U+2715"
GlyphBlocked == "U+25C8"
GlyphRevisit == "U+21BA"

OLO == <<"O", "L", "O">>

\* datetime.now().strftime("%m%dT%H%M"): the clock is outside the program
Timestamps == {<<"0", "1", "T", "0", "9">>}

----------------------------------------------------------------------------
\* gently_tiers.py

\* GateState values
TierGateStates == {GlyphOpen, GlyphHalf, GlyphYes, GlyphNo, GlyphRevisit}

\* order in Gate.cycle
TierCycleOrder == <<GlyphOpen, GlyphHalf, GlyphYes, GlyphNo>>

\* ConvState values
ConvOPEN == <<"O", "P", "E", "N">>
ConvGATE == <<"G", "A", "T", "E">>
ConvDONE == <<"D", "O", "N", "E">>
ConvFORK == <<"F", "O", "R", "K">>
ConvHOLD == <<"H", "O", "L", "D">>
TierConvStates == {ConvOPEN, ConvGATE, ConvDONE, ConvFORK, ConvHOLD}

ForkTypes == {"explore", "pivot", "refine", "challenge", "merge", "dead"}

\* Gate(letter, question), state defaulting to OPEN
NewGate(letter, question) ==
    [letter |-> letter, question |-> question, state |-> GlyphOpen]

\* a cycle that stops at the last state of the order instead of wrapping
TierGateCycleNoWrap(g) ==
    IF \E i \in 1..(Len(TierCycleOrder) - 1) : TierCycleOrder[i] = g.state
    THEN LET idx == CHOOSE i \in 1..Len(TierCycleOrder) :
                        TierCycleOrder[i] = g.state
         IN [g EXCEPT !.state = TierCycleOrder[idx + 1]]
    ELSE g

\* Gate.cycle: the next state
TierGateCycle(g) ==
    IF \E i \in 1..Len(TierCycleOrder) : TierCycleOrder[i] = g.state
    THEN LET idx == CHOOSE i \in 1..Len(TierCycleOrder) :
                        TierCycleOrder[i] = g.state
         IN [g EXCEPT !.state = TierCycleOrder[(idx % Len(TierCycleOrder)) + 1]]
    ELSE g

\* Gate.sym
Sym(g) == <<g.letter, g.state>>

\* a snapshot that does not take the state of the gate
SnapshotWithoutState(g) ==
    [letter |-> g.letter, question |-> g.question, state |-> GlyphOpen]

\* Gate.snapshot
Snapshot(g) == [letter |-> g.letter, question |-> g.question, state |-> g.state]

\* "".join(g.sym() for g in gates)
GateString(gs) == Concat([i \in 1..Len(gs) |-> Sym(gs[i])])

\* [g.snapshot() for g in gates]
GateSnapshot(gs) == [i \in 1..Len(gs) |-> Snapshot(gs[i])]

\* the pin length Tier.make_stamp keeps
TierPinLen == 25

\* a Tier that starts out frozen
TierBornFrozen(n) ==
    [level |-> n, master_depth |-> 0, master_state |-> ConvOPEN,
     master_pin |-> <<>>, branches |-> <<>>, frozen |-> TRUE,
     frozen_stamp |-> <<>>, promoted_by |-> <<>>]

\* Tier(level=n) with the dataclass defaults
TierOfLevel(n) ==
    [level |-> n, master_depth |-> 0, master_state |-> ConvOPEN,
     master_pin |-> <<>>, branches |-> <<>>, frozen |-> FALSE,
     frozen_stamp |-> <<>>, promoted_by |-> <<>>]

\* Tier.make_stamp(project_id, gates) at clock reading ts
MakeStamp(t, project_id, gs, ts) ==
    LET g == GateString(gs)
        pin == IF t.master_pin # <<>>
               THEN Replace(Take(t.master_pin, TierPinLen), " ", "-")
               ELSE <<>>
        parts == << OLO,
                    <<TagBranch, "t">> \o Str(t.level) \o <<"/">> \o project_id,
                    <<TagDepth>> \o Str(t.master_depth),
                    <<TagState>> \o t.master_state,
                    IF g # <<>> THEN <<TagGates>> \o g ELSE <<>>,
                    IF pin # <<>> THEN <<TagPin>> \o pin ELSE <<>> >>
        up == IF t.level > 0
              THEN <<(<<TagParent, "t">> \o Str(t.level - 1))>>
              ELSE <<>>
        all == parts \o up \o <<(<<TagTime>> \o ts)>>
    IN <<"[">> \o Join(NonEmpty(all), "|") \o <<"]">>

----------------------------------------------------------------------------
\* gently_tiers.Project

\* Project(id="olo", ...)
ProjectId == <<"o", "l", "o">>

\* source_branch=None
NoBranch == <<"<None>">>

\* _new_tier numbering the tiers from 1
NewTierFromOne(ts) == Append(ts, TierOfLevel(Len(ts) + 1))

\* _new_tier giving every tier the level of the first (level=0)
LevelZero(ts) == 0

\* Project._new_tier, first statement: the level read, len(self.tiers)
NextLevel(ts) == Len(ts)

\* Project._new_tier: the tier list after appending Tier(level=len(tiers))
NewTier(ts) == Append(ts, TierOfLevel(NextLevel(ts)))

\* the loop of current_tier with its test inverted (if t.frozen)
LastFrozen(ts) ==
    IF \E i \in 1..Len(ts) : ts[i].frozen
    THEN CHOOSE i \in 1..Len(ts) :
             ts[i].frozen /\ \A j \in (i + 1)..Len(ts) : ~ts[j].frozen
    ELSE None

\* a lookup that always takes the oldest tier
BottomTier(ts) == IF ts = <<>> THEN None ELSE 1

\* the loop of Project.current_tier: the last unfrozen tier, None if all frozen
LastUnfrozen(ts) ==
    IF \E i \in 1..Len(ts) : ~ts[i].frozen
    THEN CHOOSE i \in 1..Len(ts) :
             ~ts[i].frozen /\ \A j \in (i + 1)..Len(ts) : ts[j].frozen
    ELSE None

\* a lookup that opens a new tier on every call
CurrentTierAlwaysNew(ts) == [tiers |-> NewTier(ts), idx |-> Len(ts) + 1]

\* Project.current_tier: the tier list it leaves and the tier it returns
CurrentTier(ts) ==
    IF LastUnfrozen(ts) # None
    THEN [tiers |-> ts, idx |-> LastUnfrozen(ts)]
    ELSE [tiers |-> NewTier(ts), idx |-> Len(ts) + 1]

\* f"b{len(tier.branches)}-{name}"
BranchId(n, name) == <<"b">> \o Str(n) \o <<"-">> \o name

\* a Branch that does not record where it forked
NewBranchUnplaced(t, name, fork_type, gs, ts) ==
    [id |-> BranchId(Len(t.branches), name), name |-> name,
     fork_type |-> fork_type, forked_at_depth |-> 0,
     depth |-> 0, conv_state |-> ConvOPEN, pin |-> <<>>,
     stamp_at_fork |-> <<>>]

\* Branch(...) as branch_from_master builds it
NewBranch(t, name, fork_type, gs, ts) ==
    [id |-> BranchId(Len(t.branches), name), name |-> name,
     fork_type |-> fork_type, forked_at_depth |-> t.master_depth,
     depth |-> 0, conv_state |-> ConvOPEN, pin |-> <<>>,
     stamp_at_fork |-> MakeStamp(t, ProjectId, gs, ts)]

\* Branch.summary
BranchSummary(b) ==
    LET status == IF b.conv_state = ConvDONE THEN GlyphYes
                  ELSE IF b.depth > 0 THEN GlyphHalf ELSE GlyphOpen
    IN <<status, " ", b.fork_type, " ">> \o b.name \o <<" ", "[", "d", "=">>
       \o Str(b.depth) \o <<"]", " ", "\"">> \o b.pin \o <<"\"">>

\* f"art-{len(self.artifacts)}"
ManualId(n) == <<"a", "r", "t", "-">> \o Str(n)

\* one id for every automatic artifact
AutoIdOfFirst(level) == <<"t", "i", "e", "r", "-", "0", "-", "a", "u", "t", "o">>

\* f"tier-{old_tier.level}-auto"
AutoId(level) == <<"t", "i", "e", "r", "-">> \o Str(level) \o <<"-", "a", "u", "t", "o">>

\* a collected artifact filed as an automatic one
ManualArtifactAsAuto(n, t, branch_id, name, content, gs, ts) ==
    [id |-> ManualId(n), name |-> name, content |-> content,
     origin |-> "tier-auto", source_tier |-> t.level, source_branch |-> branch_id,
     gate_snapshot |-> GateSnapshot(gs),
     stamp_at_creation |-> MakeStamp(t, ProjectId, gs, ts),
     status |-> "available"]

\* Artifact(...) as collect_artifact builds it
ManualArtifact(n, t, branch_id, name, content, gs, ts) ==
    [id |-> ManualId(n), name |-> name, content |-> content,
     origin |-> "manual", source_tier |-> t.level, source_branch |-> branch_id,
     gate_snapshot |-> GateSnapshot(gs),
     stamp_at_creation |-> MakeStamp(t, ProjectId, gs, ts),
     status |-> "available"]

\* the excerpt length of the injected content
ExcerptLen == 100

\* auto_content of inject; a fixed piece of text is one element
AutoContent(old, art, gs) ==
    LET pins == [i \in 1..Len(old.branches) |->
                    <<" ", " ">> \o BranchSummary(old.branches[i])]
        syms == [i \in 1..Len(gs) |-> Sym(gs[i])]
    IN <<"=== TIER ">> \o Str(old.level) \o <<" CONCLUSION ===", "\n">>
       \o <<"Master was at depth ">> \o Str(old.master_depth)
       \o <<", state ">> \o old.master_state \o <<"\n">>
       \o <<"Master pin: \"">> \o old.master_pin \o <<"\"", "\n">>
       \o <<"Gates: ">> \o Join(syms, " ") \o <<"\n", "\n">>
       \o <<"Branches explored:", "\n">> \o Join(pins, "\n") \o <<"\n", "\n">>
       \o <<"Promoted by: ">> \o art.name \o <<"\n">>
       \o <<"Injected content: ">> \o Take(art.content, ExcerptLen)
       \o <<"...", "\n", "\n">>
       \o <<"Frozen stamp: ">> \o old.frozen_stamp

\* an automatic artifact that takes over the branch of the injected one
AutoArtifactFromBranch(old, art, gs) ==
    [id |-> AutoId(old.level),
     name |-> <<"Tier ">> \o Str(old.level) \o <<":", " ">> \o old.master_pin,
     content |-> AutoContent(old, art, gs),
     origin |-> "tier-auto", source_tier |-> old.level,
     source_branch |-> art.source_branch,
     gate_snapshot |-> GateSnapshot(gs),
     stamp_at_creation |-> old.frozen_stamp,
     status |-> "available"]

\* Artifact(...) as inject builds it from the frozen tier
AutoArtifact(old, art, gs) ==
    [id |-> AutoId(old.level),
     name |-> <<"Tier ">> \o Str(old.level) \o <<":", " ">> \o old.master_pin,
     content |-> AutoContent(old, art, gs),
     origin |-> "tier-auto", source_tier |-> old.level,
     source_branch |-> NoBranch,
     gate_snapshot |-> GateSnapshot(gs),
     stamp_at_creation |-> old.frozen_stamp,
     status |-> "available"]

\* the lookup of inject searching the whole shelf instead of the bucket
FindOnShelf(arts, bkt, id) ==
    IF \E k \in 1..Len(arts) : arts[k].id = id
    THEN CHOOSE k \in 1..Len(arts) :
             arts[k].id = id /\ \A j \in 1..(k - 1) : arts[j].id # id
    ELSE None

\* next((a for a in self.bucket if a.id == artifact_id), None)
FindInBucket(arts, bkt, id) ==
    IF \E k \in 1..Len(bkt) : arts[bkt[k]].id = id
    THEN bkt[CHOOSE k \in 1..Len(bkt) :
                 arts[bkt[k]].id = id
                 /\ \A j \in 1..(k - 1) : arts[bkt[j]].id # id]
    ELSE None

\* the freeze step without the frozen flag
FreezeWithoutFlag(t, gs, id, ts) ==
    [t EXCEPT !.frozen_stamp = MakeStamp(t, ProjectId, gs, ts),
              !.promoted_by = id]

\* the freeze step without promoted_by
FreezeWithoutPromoter(t, gs, id, ts) ==
    [t EXCEPT !.frozen = TRUE,
              !.frozen_stamp = MakeStamp(t, ProjectId, gs, ts)]

\* inject step 1: the tier with frozen, frozen_stamp and promoted_by written
Freeze(t, gs, id, ts) ==
    [t EXCEPT !.frozen = TRUE,
              !.frozen_stamp = MakeStamp(t, ProjectId, gs, ts),
              !.promoted_by = id]

\* f"promoted from tier {old_tier.level}"
PromotedPin(level) == <<"promoted from tier ">> \o Str(level)

----------------------------------------------------------------------------
\* Inputs of the calls

\* the gate sets a project is set up with (letters and questions of the demo)
GateSets == { <<>>, <<NewGate("A", "Blue?"), NewGate("B", "JPEG?")>> }

BranchNames == { <<"j">> }
ArtifactNames == { <<"f">> }
Contents == { <<"c">> }
MasterDepths == {5}
\* the pin of the demo, shortened, and a pin that holds the field separator
MasterPins == { <<"b", " ", "v">>, <<"|", TagDepth>> }
MasterStates == {ConvDONE}
\* states the callers assign to a gate directly
AssignedStates == {GlyphRevisit}

\* an id that names nothing
BogusId == <<"x">>

\* every Branch id of the project
AllBranchIds ==
    UNION { { tiers[i].branches[j].id : j \in 1..Len(tiers[i].branches) } :
            i \in 1..Len(tiers) }

ArtifactIds == { artifacts[i].id : i \in 1..Len(artifacts) }

BucketIds == { artifacts[bucket[k]].id : k \in 1..Len(bucket) }

Threads == {1, 2}

\* a caller that has not called inject
IdleFrame == [id |-> <<>>, ts |-> <<>>, art |-> None, old |-> None,
              level |-> 0, new |-> None, auto |-> None]

\* Stamp() with the dataclass defaults
DefaultStamp ==
    [branch |-> <<>>, depth |-> 0, max_depth |-> 0, parent |-> <<>>,
     parent_depth |-> 0, state |-> ConvOPEN, gates |-> <<>>, pin |-> <<>>,
     look |-> <<>>, chain |-> <<>>, timestamp |-> <<>>]

ThreadsIdle ==
    /\ pc = [t \in Threads |-> "idle"]
    /\ frame = [t \in Threads |-> IdleFrame]
    /\ overlap = FALSE

\* no parse has been made
Unparsed == [kind |-> "unset", stamp |-> DefaultStamp]

CodecIdle ==
    /\ stamp = DefaultStamp
    /\ line = <<>>
    /\ parsed = Unparsed
    /\ phase = "off"

\* nothing saved, and none of the other programs started
ExtIdle ==
    /\ saved = None
    /\ workbench = None
    /\ windows = <<>>
    /\ app = None

Call(op, arg, ret) == [op |-> op, arg |-> arg, ret |-> ret]

----------------------------------------------------------------------------
\* The Project, one caller at a time

\* Project(id, name, color) with its gates set
Init ==
    /\ gates \in GateSets
    /\ tiers = <<>>
    /\ artifacts = <<>>
    /\ bucket = <<>>
    /\ last = Call("new", <<>>, <<None, None>>)
    /\ calls = 0
    /\ ThreadsIdle
    /\ CodecIdle
    /\ ExtIdle

\* one more call by the only caller of the Project
Sequential ==
    /\ calls < MaxCalls
    /\ calls' = calls + 1
    /\ UNCHANGED thrVars
    /\ UNCHANGED extVars
    /\ UNCHANGED codecVars

\* Project.init_project: what it does to the Project
InitProjectEffect ==
    /\ tiers' = IF tiers = <<>> THEN NewTier(tiers) ELSE tiers
    /\ last' = Call("init_project", <<>>, <<None, None>>)
    /\ UNCHANGED <<gates, artifacts, bucket>>

\* Project.init_project
InitProject == Sequential /\ InitProjectEffect

\* Project.current_tier called on its own
CallCurrentTier ==
    /\ Sequential
    /\ tiers' = CurrentTier(tiers).tiers
    /\ last' = Call("current_tier", <<>>, <<CurrentTier(tiers).idx, None>>)
    /\ UNCHANGED <<gates, artifacts, bucket>>

\* t = proj.current_tier(); t.master_depth = d; t.master_state = st;
\* t.master_pin = pin
MasterProgress(d, st, pin) ==
    /\ Sequential
    /\ LET ct == CurrentTier(tiers)
       IN tiers' = [ct.tiers EXCEPT ![ct.idx].master_depth = d,
                                    ![ct.idx].master_state = st,
                                    ![ct.idx].master_pin = pin]
    /\ last' = Call("progress", <<>>, <<CurrentTier(tiers).idx, None>>)
    /\ UNCHANGED <<gates, artifacts, bucket>>

\* proj.gates[i].cycle()
GateCycle(i) ==
    /\ i \in 1..Len(gates)
    /\ Sequential
    /\ gates' = [gates EXCEPT ![i] = TierGateCycle(gates[i])]
    /\ last' = Call("cycle", <<gates[i].letter>>, <<None, None>>)
    /\ UNCHANGED <<tiers, artifacts, bucket>>

\* proj.gates[i].state = st
GateAssign(i, st) ==
    /\ i \in 1..Len(gates)
    /\ Sequential
    /\ gates' = [gates EXCEPT ![i].state = st]
    /\ last' = Call("assign", <<gates[i].letter>>, <<None, None>>)
    /\ UNCHANGED <<tiers, artifacts, bucket>>

\* Project.branch_from_master(name, fork_type)
BranchFromMaster(name, fork_type, ts) ==
    /\ Sequential
    /\ LET ct == CurrentTier(tiers)
           t == ct.tiers[ct.idx]
       IN /\ tiers' = [ct.tiers EXCEPT ![ct.idx].branches =
                          Append(t.branches, NewBranch(t, name, fork_type, gates, ts))]
          /\ last' = Call("branch_from_master", name,
                          <<ct.idx, Len(t.branches) + 1>>)
    /\ UNCHANGED <<gates, artifacts, bucket>>

\* Project.collect_artifact(branch_id, name, content): what it does
CollectEffect(branch_id, name, content, ts) ==
    /\ LET ct == CurrentTier(tiers)
           art == ManualArtifact(Len(artifacts), ct.tiers[ct.idx], branch_id,
                                 name, content, gates, ts)
       IN /\ tiers' = ct.tiers
          /\ artifacts' = Append(artifacts, art)
          /\ bucket' = Append(bucket, Len(artifacts) + 1)
          /\ last' = Call("collect_artifact", branch_id,
                          <<Len(artifacts) + 1, None>>)
    /\ UNCHANGED <<gates>>

\* Project.collect_artifact(branch_id, name, content)
CollectArtifact(branch_id, name, content, ts) ==
    Sequential /\ CollectEffect(branch_id, name, content, ts)

\* Project.inject(artifact_id) when the bucket holds no such artifact
InjectMiss(id) ==
    /\ Sequential
    /\ FindInBucket(artifacts, bucket, id) = None
    /\ last' = Call("inject", id, <<None, None>>)
    /\ UNCHANGED <<gates, tiers, artifacts, bucket>>

\* Project.inject(artifact_id) when the bucket holds the artifact
InjectHit(id, ts) ==
    /\ Sequential
    /\ FindInBucket(artifacts, bucket, id) # None
    /\ LET a == FindInBucket(artifacts, bucket, id)
           marked == [artifacts EXCEPT ![a].status = "injected"]
           ct == CurrentTier(tiers)
           old == Freeze(ct.tiers[ct.idx], gates, id, ts)
           frozen == [ct.tiers EXCEPT ![ct.idx] = old]
           auto == AutoArtifact(old, marked[a], gates)
           grown == NewTier(frozen)
       IN /\ artifacts' = Append(marked, auto)
          /\ tiers' = [grown EXCEPT ![Len(grown)].master_pin = PromotedPin(old.level)]
          /\ last' = Call("inject", id, <<Len(grown), Len(marked) + 1>>)
    /\ UNCHANGED <<gates, bucket>>

\* Project.inject(artifact_id)
Inject(id, ts) == InjectMiss(id) \/ InjectHit(id, ts)

Next ==
    \/ InitProject
    \/ CallCurrentTier
    \/ \E d \in MasterDepths, st \in MasterStates, pin \in MasterPins :
           MasterProgress(d, st, pin)
    \/ \E i \in 1..Len(gates) : GateCycle(i)
    \/ \E i \in 1..Len(gates), st \in AssignedStates : GateAssign(i, st)
    \/ \E name \in BranchNames, ft \in {"explore"}, ts \in Timestamps :
           BranchFromMaster(name, ft, ts)
    \/ \E b \in AllBranchIds \cup {BogusId}, name \in ArtifactNames,
          c \in Contents, ts \in Timestamps :
           CollectArtifact(b, name, c, ts)
    \/ \E id \in ArtifactIds \cup {BogusId}, ts \in Timestamps :
           Inject(id, ts)

Spec == Init /\ [][Next]_vars

----------------------------------------------------------------------------
\* Properties of the Project, one caller at a time

Unfrozen(ts) == { i \in 1..Len(ts) : ~ts[i].frozen }

HighestLevel(ts) ==
    CHOOSE n \in { ts[i].level : i \in 1..Len(ts) } :
        \A i \in 1..Len(ts) : ts[i].level <= n

\* the step is a call of op
Called(op) == calls' = calls + 1 /\ last'.op = op

NoResult == <<None, None>>

\* C1: in every reachable state of the Project at most one tier is unfrozen.
C1_AtMostOneActive == Cardinality(Unfrozen(tiers)) <= 1

\* a promotion has happened: a frozen tier below the unfrozen one
C1_Witness ==
    /\ last.op = "inject"
    /\ last.ret # NoResult
    /\ Len(tiers) >= 2
    /\ tiers[1].frozen

\* C2: inject(id) with id naming a bucket artifact freezes exactly one tier
\* that was unfrozen (promoted_by = id), appends exactly one unfrozen tier of
\* level = old highest level + 1, appends exactly one TIER_AUTO artifact
\* that is not in the bucket, and leaves the named artifact 'injected'.
C2_InjectEffect ==
    [][ (Called("inject") /\ last'.arg \in BucketIds) =>
          LET id == last'.arg
              a == FindInBucket(artifacts, bucket, id)
              newlyFrozen == { i \in 1..Len(tiers) :
                                 ~tiers[i].frozen /\ tiers'[i].frozen }
          IN /\ Len(tiers') = Len(tiers) + 1
             /\ Cardinality(newlyFrozen) = 1
             /\ \A i \in newlyFrozen : tiers'[i].promoted_by = id
             /\ \A i \in 1..Len(tiers) : tiers[i].frozen => tiers'[i].frozen
             /\ tiers'[Len(tiers')].level = HighestLevel(tiers) + 1
             /\ ~tiers'[Len(tiers')].frozen
             /\ Len(artifacts') = Len(artifacts) + 1
             /\ artifacts'[Len(artifacts')].origin = "tier-auto"
             /\ \A k \in 1..Len(bucket') : bucket'[k] # Len(artifacts')
             /\ artifacts'[a].status = "injected"
             /\ last'.ret = <<Len(tiers'), Len(artifacts')>>
      ]_vars

\* inject has promoted on a bucket artifact
C2_Witness ==
    /\ last.op = "inject"
    /\ last.arg \in BucketIds
    /\ last.ret # NoResult

\* C3: a frozen tier stays frozen in every later state, and its frozen_stamp
\* and promoted_by are never written again.
C3_FreezeOneWay ==
    [][ \A i \in 1..Len(tiers) :
          tiers[i].frozen =>
            /\ i <= Len(tiers')
            /\ tiers'[i].frozen
            /\ tiers'[i].frozen_stamp = tiers[i].frozen_stamp
            /\ tiers'[i].promoted_by = tiers[i].promoted_by
      ]_vars

\* a tier frozen by one inject has lived through a later inject by another id
C3_Witness ==
    /\ Len(tiers) >= 3
    /\ tiers[1].frozen
    /\ tiers[2].frozen
    /\ tiers[1].promoted_by # tiers[2].promoted_by

\* C4: inject with the id of an artifact whose status is already 'injected'
\* returns no result and leaves tiers, artifacts and bucket unchanged.
C4_ReinjectIsNoOp ==
    [][ ( /\ Called("inject")
          /\ FindInBucket(artifacts, bucket, last'.arg) # None
          /\ artifacts[FindInBucket(artifacts, bucket, last'.arg)].status
               = "injected" ) =>
          /\ last'.ret = NoResult
          /\ tiers' = tiers
          /\ artifacts' = artifacts
          /\ bucket' = bucket
      ]_vars

\* C5: collect_artifact with a branch id of no Branch of the project returns
\* no result and leaves the artifact list and the bucket unchanged.
C5_UnknownBranchIsNoOp ==
    [][ (Called("collect_artifact") /\ last'.arg \notin AllBranchIds) =>
          /\ last'.ret = NoResult
          /\ artifacts' = artifacts
          /\ bucket' = bucket
      ]_vars

\* C6: inject with an id that names no bucket artifact returns (None, None)
\* and leaves tiers, artifacts (statuses included) and bucket unchanged.
C6_UnknownArtifactIsNoOp ==
    [][ (Called("inject") /\ last'.arg \notin BucketIds) =>
          /\ last'.ret = NoResult
          /\ tiers' = tiers
          /\ artifacts' = artifacts
          /\ bucket' = bucket
          /\ gates' = gates
      ]_vars

\* inject was called with the id of a shelf artifact that is not in the bucket
C6_Witness ==
    /\ last.op = "inject"
    /\ last.arg \in ArtifactIds \ BucketIds
    /\ last.ret = NoResult

\* C8: the tier at list index i has level i (Python counts from 0).
C8_LevelIsIndex == \A i \in 1..Len(tiers) : tiers[i].level = i - 1

\* two promotions have numbered three tiers
C8_Witness ==
    /\ Len(tiers) >= 3
    /\ last.op = "inject"
    /\ last.ret # NoResult

----------------------------------------------------------------------------
\* Two callers of Project.inject on one Project with no lock: each statement
\* of inject, current_tier and _new_tier is one step.

Other(t) == CHOOSE u \in Threads : u # t

\* between the lookup of the current tier and the append of the next one
InPromotion(t) ==
    pc[t] \in {"ct_read", "ct_append", "freeze", "stamp", "promoter", "auto",
               "new_read", "new_append"}

Goto(t, label) == pc' = [pc EXCEPT ![t] = label]

\* one more call before the two callers start
Staging ==
    /\ \A t \in Threads : pc[t] = "idle"
    /\ calls < MaxStaged
    /\ calls' = calls + 1
    /\ UNCHANGED thrVars
    /\ UNCHANGED extVars
    /\ UNCHANGED codecVars

\* init_project before the two callers start
StageInit == Staging /\ InitProjectEffect

\* collect_artifact before the two callers start
StageCollect(name, content, ts) ==
    Staging /\ CollectEffect(BogusId, name, content, ts)

\* a caller enters inject(id)
T_Call(t, id, ts) ==
    /\ UNCHANGED codecVars
    /\ UNCHANGED extVars
    /\ pc[t] = "idle"
    /\ frame' = [frame EXCEPT ![t].id = id, ![t].ts = ts]
    /\ Goto(t, "find")
    /\ UNCHANGED <<gates, tiers, artifacts, bucket, last, calls, overlap>>

\* art = next(...); if not art: return None, None
T_Find(t) ==
    /\ UNCHANGED codecVars
    /\ UNCHANGED extVars
    /\ pc[t] = "find"
    /\ LET a == FindInBucket(artifacts, bucket, frame[t].id)
       IN /\ frame' = [frame EXCEPT ![t].art = a]
          /\ Goto(t, IF a = None THEN "done" ELSE "mark")
    /\ UNCHANGED <<gates, tiers, artifacts, bucket, last, calls, overlap>>

\* art.status = "injected"
T_Mark(t) ==
    /\ UNCHANGED codecVars
    /\ UNCHANGED extVars
    /\ pc[t] = "mark"
    /\ artifacts' = [artifacts EXCEPT ![frame[t].art].status = "injected"]
    /\ Goto(t, "lookup")
    /\ UNCHANGED <<gates, tiers, bucket, last, calls, frame, overlap>>

\* old_tier = self.current_tier(): the loop over reversed(self.tiers)
T_Lookup(t) ==
    /\ UNCHANGED codecVars
    /\ UNCHANGED extVars
    /\ pc[t] = "lookup"
    /\ LET i == LastUnfrozen(tiers)
       IN /\ frame' = [frame EXCEPT ![t].old = i]
          /\ Goto(t, IF i = None THEN "ct_read" ELSE "freeze")
    /\ overlap' = (overlap \/ InPromotion(Other(t)))
    /\ UNCHANGED <<gates, tiers, artifacts, bucket, last, calls>>

\* current_tier -> _new_tier: t = Tier(level=len(self.tiers))
T_CtRead(t) ==
    /\ UNCHANGED codecVars
    /\ UNCHANGED extVars
    /\ pc[t] = "ct_read"
    /\ frame' = [frame EXCEPT ![t].level = NextLevel(tiers)]
    /\ Goto(t, "ct_append")
    /\ UNCHANGED <<gates, tiers, artifacts, bucket, last, calls, overlap>>

\* current_tier -> _new_tier: self.tiers.append(t); return t
T_CtAppend(t) ==
    /\ UNCHANGED codecVars
    /\ UNCHANGED extVars
    /\ pc[t] = "ct_append"
    /\ tiers' = Append(tiers, TierOfLevel(frame[t].level))
    /\ frame' = [frame EXCEPT ![t].old = Len(tiers) + 1]
    /\ Goto(t, "freeze")
    /\ UNCHANGED <<gates, artifacts, bucket, last, calls, overlap>>

\* old_tier.frozen = True
T_FreezeFlag(t) ==
    /\ UNCHANGED codecVars
    /\ UNCHANGED extVars
    /\ pc[t] = "freeze"
    /\ tiers' = [tiers EXCEPT ![frame[t].old].frozen = TRUE]
    /\ Goto(t, "stamp")
    /\ UNCHANGED <<gates, artifacts, bucket, last, calls, frame, overlap>>

\* old_tier.frozen_stamp = old_tier.make_stamp(self.id, self.gates)
T_FreezeStamp(t) ==
    /\ UNCHANGED codecVars
    /\ UNCHANGED extVars
    /\ pc[t] = "stamp"
    /\ tiers' = [tiers EXCEPT ![frame[t].old].frozen_stamp =
                    MakeStamp(tiers[frame[t].old], ProjectId, gates, frame[t].ts)]
    /\ Goto(t, "promoter")
    /\ UNCHANGED <<gates, artifacts, bucket, last, calls, frame, overlap>>

\* old_tier.promoted_by = artifact_id
T_FreezePromoter(t) ==
    /\ UNCHANGED codecVars
    /\ UNCHANGED extVars
    /\ pc[t] = "promoter"
    /\ tiers' = [tiers EXCEPT ![frame[t].old].promoted_by = frame[t].id]
    /\ Goto(t, "auto")
    /\ UNCHANGED <<gates, artifacts, bucket, last, calls, frame, overlap>>

\* auto_art = Artifact(...); self.artifacts.append(auto_art)
T_Auto(t) ==
    /\ UNCHANGED codecVars
    /\ UNCHANGED extVars
    /\ pc[t] = "auto"
    /\ artifacts' = Append(artifacts,
                       AutoArtifact(tiers[frame[t].old], artifacts[frame[t].art], gates))
    /\ frame' = [frame EXCEPT ![t].auto = Len(artifacts) + 1]
    /\ Goto(t, "new_read")
    /\ UNCHANGED <<gates, tiers, bucket, last, calls, overlap>>

\* new_tier = self._new_tier(): t = Tier(level=len(self.tiers))
T_NewRead(t) ==
    /\ UNCHANGED codecVars
    /\ UNCHANGED extVars
    /\ pc[t] = "new_read"
    /\ frame' = [frame EXCEPT ![t].level = NextLevel(tiers)]
    /\ Goto(t, "new_append")
    /\ UNCHANGED <<gates, tiers, artifacts, bucket, last, calls, overlap>>

\* new_tier = self._new_tier(): self.tiers.append(t); return t
T_NewAppend(t) ==
    /\ UNCHANGED codecVars
    /\ UNCHANGED extVars
    /\ pc[t] = "new_append"
    /\ tiers' = Append(tiers, TierOfLevel(frame[t].level))
    /\ frame' = [frame EXCEPT ![t].new = Len(tiers) + 1]
    /\ Goto(t, "pin")
    /\ UNCHANGED <<gates, artifacts, bucket, last, calls, overlap>>

\* new_tier.master_pin = f"promoted from tier {old_tier.level}"; return
T_Pin(t) ==
    /\ UNCHANGED codecVars
    /\ UNCHANGED extVars
    /\ pc[t] = "pin"
    /\ tiers' = [tiers EXCEPT ![frame[t].new].master_pin =
                    PromotedPin(tiers[frame[t].old].level)]
    /\ Goto(t, "done")
    /\ UNCHANGED <<gates, artifacts, bucket, last, calls, frame, overlap>>

ThreadStep(t) ==
    \/ \E id \in ArtifactIds \cup {BogusId}, ts \in Timestamps : T_Call(t, id, ts)
    \/ T_Find(t)
    \/ T_Mark(t)
    \/ T_Lookup(t)
    \/ T_CtRead(t)
    \/ T_CtAppend(t)
    \/ T_FreezeFlag(t)
    \/ T_FreezeStamp(t)
    \/ T_FreezePromoter(t)
    \/ T_Auto(t)
    \/ T_NewRead(t)
    \/ T_NewAppend(t)
    \/ T_Pin(t)

ConcNext ==
    \/ StageInit
    \/ \E name \in ArtifactNames, c \in Contents, ts \in Timestamps :
           StageCollect(name, c, ts)
    \/ \E t \in Threads : ThreadStep(t)

SpecConc == Init /\ [][ConcNext]_vars

\* both calls have returned a promotion
BothPromoted == \A t \in Threads : pc[t] = "done" /\ frame[t].art # None

TwoActive == Cardinality(Unfrozen(tiers)) >= 2

SameLevelTwice ==
    \E i, j \in 1..Len(tiers) : i # j /\ tiers[i].level = tiers[j].level

FrozenByBoth == frame[1].old # None /\ frame[1].old = frame[2].old

\* C7: inject is not atomic.  When two inject calls on one Project have both
\* returned, the single-active-tier invariant is broken (two unfrozen tiers,
\* two tiers of one level, or one tier frozen by both calls) exactly when one
\* call looked up the current tier while the other was between its own lookup
\* and its append of the new tier.
C7_RaceBreaksInvariant ==
    BothPromoted => ((TwoActive \/ SameLevelTwice \/ FrozenByBoth) <=> overlap)

\* two interleaved injects have left two unfrozen tiers
C7_Witness == BothPromoted /\ overlap /\ TwoActive

----------------------------------------------------------------------------
\* stamp.py: Stamp.compact and Stamp.parse_compact

\* CONV_STATES
ConvDEAD == <<"D", "E", "A", "D">>
StampConvStates == TierConvStates \cup {ConvDEAD}

\* GATE_STATES values
StampGateStates ==
    {GlyphOpen, GlyphHalf, GlyphYes, GlyphNo, GlyphBlocked, GlyphRevisit}

\* Gate(letter, question, state) of stamp.py
StampGate(letter, question, state) ==
    [letter |-> letter, question |-> question, state |-> state]

\* Gate.compact
GateCompact(g) == <<g.letter, g.state>>

\* GATE_CYCLE
StampCycleOrder == <<GlyphOpen, GlyphHalf, GlyphYes, GlyphNo>>

\* a cycle over all six values of GATE_STATES
StampGateCycleSix(g) ==
    LET six == <<GlyphOpen, GlyphHalf, GlyphYes, GlyphNo, GlyphBlocked,
                 GlyphRevisit>>
        idx == CHOOSE i \in 1..6 : six[i] = g.state
    IN [g EXCEPT !.state = six[(idx % 6) + 1]]

\* a cycle that leaves a state outside GATE_CYCLE as it is
StampGateCycleStay(g) ==
    IF \E i \in 1..Len(StampCycleOrder) : StampCycleOrder[i] = g.state
    THEN LET idx == CHOOSE i \in 1..Len(StampCycleOrder) :
                        StampCycleOrder[i] = g.state
         IN [g EXCEPT !.state = StampCycleOrder[(idx % Len(StampCycleOrder)) + 1]]
    ELSE g

\* Gate.cycle of stamp.py: idx is 0 for a state outside GATE_CYCLE
StampGateCycle(g) ==
    LET idx == IF \E i \in 1..Len(StampCycleOrder) : StampCycleOrder[i] = g.state
               THEN (CHOOSE i \in 1..Len(StampCycleOrder) :
                         StampCycleOrder[i] = g.state) - 1
               ELSE 0
    IN [g EXCEPT !.state = StampCycleOrder[((idx + 1) % Len(StampCycleOrder)) + 1]]

\* the pin length Stamp.compact keeps
StampPinLen == 30

\* Stamp.compact at clock reading ts
Compact(r, ts) ==
    LET gate_str == Concat([i \in 1..Len(r.gates) |-> GateCompact(r.gates[i])])
        parent_str == IF r.parent # <<>>
                      THEN r.parent \o <<"@", "d">> \o Str(r.parent_depth)
                      ELSE <<>>
        pin_short == IF r.pin # <<>>
                     THEN Replace(Take(r.pin, StampPinLen), " ", "-")
                     ELSE <<>>
        parts == << OLO,
                    IF r.branch # <<>> THEN <<TagBranch>> \o r.branch ELSE <<>>,
                    <<TagDepth>> \o Str(r.depth) \o <<"/">> \o Str(r.max_depth),
                    IF parent_str # <<>> THEN <<TagParent>> \o parent_str ELSE <<>>,
                    <<TagState>> \o r.state,
                    IF gate_str # <<>> THEN <<TagGates>> \o gate_str ELSE <<>>,
                    IF pin_short # <<>> THEN <<TagPin>> \o pin_short ELSE <<>>,
                    IF r.look # <<>> THEN <<TagLook>> \o r.look ELSE <<>>,
                    IF r.chain # <<>> THEN <<TagChain>> \o r.chain ELSE <<>>,
                    <<TagTime>> \o ts >>
    IN <<"[">> \o Join(NonEmpty(parts), "|") \o <<"]">>

\* s.strip() of the blanks int() skips
RECURSIVE Strip(_)
Strip(s) ==
    IF s # <<>> /\ Head(s) \in {" ", "\n"} THEN Strip(Tail(s))
    ELSE IF s # <<>> /\ s[Len(s)] \in {" ", "\n"} THEN Strip(SubSeq(s, 1, Len(s) - 1))
    ELSE s

\* the digits of an int() literal: digits, single underscores between them
IsDigits(s) ==
    /\ s # <<>>
    /\ \A i \in 1..Len(s) : IsDigit(s[i]) \/ s[i] = "_"
    /\ IsDigit(s[1])
    /\ IsDigit(s[Len(s)])
    /\ \A i \in 1..(Len(s) - 1) : ~(s[i] = "_" /\ s[i + 1] = "_")

\* the value of a digit string
RECURSIVE DigitsValue(_)
DigitsValue(s) ==
    IF s = <<>> THEN 0
    ELSE IF s[Len(s)] = "_" THEN DigitsValue(SubSeq(s, 1, Len(s) - 1))
    ELSE 10 * DigitsValue(SubSeq(s, 1, Len(s) - 1)) + DigitVal(s[Len(s)])

\* whether int(s) returns (it raises ValueError otherwise)
IntOk(s) ==
    LET t == Strip(s)
    IN IF t # <<>> /\ Head(t) \in {"+", "-"} THEN IsDigits(Tail(t)) ELSE IsDigits(t)

\* int(s) when it returns
IntOf(s) ==
    LET t == Strip(s)
    IN IF t # <<>> /\ Head(t) = "-" THEN 0 - DigitsValue(Tail(t))
       ELSE IF t # <<>> /\ Head(t) = "+" THEN DigitsValue(Tail(t))
       ELSE DigitsValue(t)

\* '@d' in ref
HasAtD(ref) == \E i \in 1..(Len(ref) - 1) : ref[i] = "@" /\ ref[i + 1] = "d"

\* where the last '@d' of ref starts: ref.rsplit('@d', 1)
LastAtD(ref) ==
    CHOOSE i \in 1..(Len(ref) - 1) :
        /\ ref[i] = "@" /\ ref[i + 1] = "d"
        /\ \A j \in (i + 1)..(Len(ref) - 1) : ~(ref[j] = "@" /\ ref[j + 1] = "d")

\* the while loop over the gate field: Gate(gs[i], "", gs[i + 1]), i += 2
RECURSIVE GatePairs(_)
GatePairs(gs) ==
    IF Len(gs) < 2 THEN <<>>
    ELSE <<StampGate(gs[1], <<>>, gs[2])>> \o GatePairs(Drop(gs, 2))

\* a parse in progress: the Stamp built so far, or the exception raised
Parsing(r) == [kind |-> "stamp", stamp |-> r]
Raised == [kind |-> "ValueError", stamp |-> DefaultStamp]
NoStamp == [kind |-> "None", stamp |-> DefaultStamp]

\* one turn of the loop of parse_compact: the tag dispatch on part
ParsePart(r, part) ==
    IF part = OLO THEN Parsing(r)
    ELSE IF part = <<>> THEN Parsing(r)
    ELSE IF part[1] = TagBranch THEN Parsing([r EXCEPT !.branch = Drop(part, 1)])
    ELSE IF part[1] = TagDepth THEN
        LET nums == Split(Drop(part, 1), "/")
        IN IF ~IntOk(nums[1]) THEN Raised
           ELSE IF Len(nums) > 1 /\ ~IntOk(nums[2]) THEN Raised
           ELSE Parsing([r EXCEPT !.depth = IntOf(nums[1]),
                                  !.max_depth = IF Len(nums) > 1
                                                THEN IntOf(nums[2]) ELSE 0])
    ELSE IF part[1] = TagParent THEN
        LET ref == Drop(part, 1)
        IN IF HasAtD(ref)
           THEN LET i == LastAtD(ref)
                    name == SubSeq(ref, 1, i - 1)
                    dp == Drop(ref, i + 1)
                IN IF IntOk(dp)
                   THEN Parsing([r EXCEPT !.parent = name,
                                          !.parent_depth = IntOf(dp)])
                   ELSE Raised
           ELSE Parsing([r EXCEPT !.parent = ref])
    ELSE IF part[1] = TagState THEN Parsing([r EXCEPT !.state = Drop(part, 1)])
    ELSE IF part[1] = TagGates THEN
        Parsing([r EXCEPT !.gates = r.gates \o GatePairs(Drop(part, 1))])
    ELSE IF part[1] = TagPin THEN
        Parsing([r EXCEPT !.pin = Replace(Drop(part, 1), "-", " ")])
    ELSE IF part[1] = TagLook THEN Parsing([r EXCEPT !.look = Drop(part, 1)])
    ELSE IF part[1] = TagChain THEN Parsing([r EXCEPT !.chain = Drop(part, 1)])
    ELSE IF part[1] = TagTime THEN Parsing([r EXCEPT !.timestamp = Drop(part, 1)])
    ELSE Parsing(r)

\* the glyphs the tag dispatch of parse_compact knows
KnownTags ==
    {TagBranch, TagDepth, TagParent, TagState, TagGates, TagPin, TagLook,
     TagChain, TagTime}

\* a loop that stops at the first part it has no branch for
RECURSIVE ParsePartsUntilUnknown(_, _)
ParsePartsUntilUnknown(r, parts) ==
    IF parts = <<>> THEN Parsing(r)
    ELSE IF Head(parts) # OLO
            /\ (Head(parts) = <<>> \/ Head(parts)[1] \notin KnownTags)
         THEN Parsing(r)
    ELSE LET one == ParsePart(r, Head(parts))
         IN IF one.kind = "stamp"
            THEN ParsePartsUntilUnknown(one.stamp, Tail(parts))
            ELSE one

\* the loop of parse_compact over parts, from the Stamp built so far
RECURSIVE ParseParts(_, _)
ParseParts(r, parts) ==
    IF parts = <<>> THEN Parsing(r)
    ELSE LET one == ParsePart(r, Head(parts))
         IN IF one.kind = "stamp" THEN ParseParts(one.stamp, Tail(parts))
            ELSE one

\* a decoder without the wrapper test of line 160
ParseCompactUnwrapped(ln) ==
    ParseParts(DefaultStamp, Split(SubSeq(ln, 2, Len(ln) - 1), "|"))

\* Stamp.parse_compact
ParseCompact(ln) ==
    IF ~StartsWith(ln, <<"[">> \o OLO \o <<"|">>) \/ ~EndsWith(ln, <<"]">>)
    THEN NoStamp
    ELSE ParseParts(DefaultStamp, Split(SubSeq(ln, 2, Len(ln) - 1), "|"))

----------------------------------------------------------------------------
\* The codec on bounded checkpoint records

\* longest free text enumerated in full
MaxText == 2
\* longest gate list
MaxGates == 2

\* characters of free text: a letter, the blank, the pin placeholder, the
\* field separator and the two characters of the parent-depth marker
TextChars == {"a", " ", "-", "|", "@", "d"}

\* every string over chars of length at most n
SeqsUpTo(chars, n) == UNION { [1..k -> chars] : k \in 0..n }

Texts == SeqsUpTo(TextChars, MaxText)

\* a pin of n characters whose last character differs from the others
LongPin(n) ==
    [i \in 1..n |-> IF i = n THEN "z" ELSE IF i % 4 = 0 THEN " " ELSE "p"]

\* pins around the length Stamp.compact keeps
LongPins == { LongPin(n) : n \in (StampPinLen - 1)..(StampPinLen + 2) }

Depths == {0, 7, 12}

GateLetters == {"A", "B"}

GateLists ==
    UNION { [1..k -> { StampGate(l, <<"q">>, g) :
                        l \in GateLetters, g \in StampGateStates }] :
            k \in 0..MaxGates }

\* the record of the demo, with short texts
DemoStamp ==
    [branch |-> <<"a", "/", "a">>, depth |-> 7, max_depth |-> 12,
     parent |-> <<"a">>, parent_depth |-> 4, state |-> ConvOPEN,
     gates |-> <<StampGate("A", <<"q">>, GlyphYes),
                 StampGate("B", <<"q">>, GlyphRevisit)>>,
     pin |-> <<"a", " ", "a">>, look |-> <<"a", "a">>, chain |-> <<"a">>,
     timestamp |-> <<>>]

\* the records the codec is run on: each field in turn over its whole
\* bounded domain, in an otherwise empty and an otherwise full record
StampRecords ==
    UNION { { [b EXCEPT !.branch = t] : t \in Texts }
            \cup { [b EXCEPT !.look = t] : t \in Texts }
            \cup { [b EXCEPT !.chain = t] : t \in Texts }
            \cup { [b EXCEPT !.pin = t] : t \in Texts \cup LongPins }
            \cup { [b EXCEPT !.parent = t, !.parent_depth = d] :
                     t \in Texts \ {<<>>}, d \in Depths }
            \cup { [b EXCEPT !.parent = <<>>, !.parent_depth = 0] : t \in {0} }
            \cup { [b EXCEPT !.depth = d, !.max_depth = m] :
                     d \in Depths, m \in Depths }
            \cup { [b EXCEPT !.state = st] : st \in StampConvStates }
            \cup { [b EXCEPT !.gates = gs] : gs \in GateLists }
          : b \in {DefaultStamp, DemoStamp} }

\* Stamp(...) constructed
CodecInit ==
    /\ stamp \in StampRecords
    /\ line = <<>>
    /\ parsed = Unparsed
    /\ phase = "new"
    /\ gates = <<>>
    /\ tiers = <<>>
    /\ artifacts = <<>>
    /\ bucket = <<>>
    /\ last = Call("new", <<>>, <<None, None>>)
    /\ calls = 0
    /\ ThreadsIdle
    /\ ExtIdle

\* c = stamp.compact()
DoCompact(ts) ==
    /\ phase = "new"
    /\ line' = Compact(stamp, ts)
    /\ phase' = "compact"
    /\ UNCHANGED <<stamp, parsed>>
    /\ UNCHANGED projVars
    /\ UNCHANGED thrVars
    /\ UNCHANGED extVars

\* p = Stamp.parse_compact(c)
DoParse ==
    /\ phase = "compact"
    /\ parsed' = ParseCompact(line)
    /\ phase' = "parsed"
    /\ UNCHANGED <<stamp, line>>
    /\ UNCHANGED projVars
    /\ UNCHANGED thrVars
    /\ UNCHANGED extVars

CodecNext ==
    \/ \E ts \in Timestamps : DoCompact(ts)
    \/ DoParse

SpecCodec == CodecInit /\ [][CodecNext]_vars

\* letter and state of every gate, in order
GateSyms(gs) == [i \in 1..Len(gs) |-> <<gs[i].letter, gs[i].state>>]

\* no field of r holds the field separator
SeparatorFree(r) ==
    \A f \in {"branch", "parent", "pin", "look", "chain"} :
        \A i \in 1..Len(r[f]) : r[f][i] # "|"

\* the fields the round trip is to reproduce
SameCheckpoint(p, r) ==
    /\ p.branch = r.branch
    /\ p.depth = r.depth
    /\ p.max_depth = r.max_depth
    /\ p.state = r.state
    /\ GateSyms(p.gates) = GateSyms(r.gates)
    /\ p.parent = r.parent
    /\ p.parent_depth = r.parent_depth
    /\ p.look = r.look
    /\ p.chain = r.chain

\* p's pin is r's pin cut to the length bound, blanks and '-' taken as one
SamePin(p, r) ==
    Replace(p.pin, "-", " ") = Replace(Take(r.pin, StampPinLen), "-", " ")

\* C9: parse_compact(r.compact()) reproduces r's branch, depth, max_depth,
\* state, gate letters and states in order, parent, parent_depth, look and
\* chain, for every record r.
C9_RoundTrip ==
    phase = "parsed" => parsed.kind = "stamp" /\ SameCheckpoint(parsed.stamp, stamp)

\* C10: the pin decoded from r.compact() is r's pin cut to 30 characters, up
\* to the substitution between blanks and '-', for every record r.
C10_PinRoundTrip ==
    phase = "parsed" => parsed.kind = "stamp" /\ SamePin(parsed.stamp, stamp)

\* the round trip of C9 and C10 on the records that hold no separator
RoundTripSeparatorFree ==
    (phase = "parsed" /\ SeparatorFree(stamp)) =>
        /\ parsed.kind = "stamp"
        /\ SameCheckpoint(parsed.stamp, stamp)
        /\ SamePin(parsed.stamp, stamp)

----------------------------------------------------------------------------
\* The decoder on arbitrary lines

\* most fields of an enumerated line
MaxFields == 2

\* the tag gently_model.Stamp.compact writes for the fork type, which
\* parse_compact has no branch for
TagFork == "U+1F500"

\* 'not a stamp'
NotAStamp == <<"n", "o", "t", " ", "a", " ", "s", "t", "a", "m", "p">>

\* fields a line may carry: well-formed ones, numbers that are no decimal
\* literal, a gate field of odd length, an unknown tag, an empty field
RawFields ==
    { <<>>,
      <<TagBranch, "a">>,
      <<TagDepth, "7">>,
      <<TagDepth, "7", "/", "1", "2">>,
      <<TagDepth, "x">>,
      <<TagDepth>>,
      <<TagDepth, "7", "/">>,
      <<TagParent, "a", "@", "d", "4">>,
      <<TagParent, "a", "@", "d", "x">>,
      <<TagParent, "a">>,
      <<TagState>> \o ConvDONE,
      <<TagGates, "A", GlyphYes, "B">>,
      <<TagPin, "a", "-", "a">>,
      <<TagFork, "e">> }

\* what a line may open and close with
Openings == { <<"[">> \o OLO \o <<"|">>, <<"[">> \o OLO, OLO \o <<"|">>, <<>> }
Closings == { <<"]">>, <<>> }

RawLines ==
    {NotAStamp}
    \cup { o \o Join(fs, "|") \o c :
             o \in Openings, c \in Closings, fs \in SeqsUpTo(RawFields, MaxFields) }

\* the lines Stamp.compact writes for the bounded records
CompactLines == { Compact(r, ts) : r \in StampRecords, ts \in Timestamps }

\* line.startswith('[OLO|') and line.endswith(']')
Wrapped(ln) == StartsWith(ln, <<"[">> \o OLO \o <<"|">>) /\ EndsWith(ln, <<"]">>)

\* fields without a known tag in front
ExtraFields ==
    { <<>>, <<"x">>, <<"x", TagPin, "a">>, <<TagFork, "e">>, <<" ", TagDepth, "7">> }

\* line[1:-1].split('|')
Fields(ln) == Split(SubSeq(ln, 2, Len(ln) - 1), "|")

\* the wrapped line ln with field f put in after its k-th field
InsertField(ln, k, f) ==
    LET parts == Fields(ln)
        more == SubSeq(parts, 1, k) \o <<f>> \o SubSeq(parts, k + 1, Len(parts))
    IN <<"[">> \o Join(more, "|") \o <<"]">>

\* a line arrives from outside
DecodeInit ==
    /\ line \in RawLines \cup CompactLines
    /\ stamp = DefaultStamp
    /\ parsed = Unparsed
    /\ phase = "raw"
    /\ gates = <<>>
    /\ tiers = <<>>
    /\ artifacts = <<>>
    /\ bucket = <<>>
    /\ last = Call("new", <<>>, <<None, None>>)
    /\ calls = 0
    /\ ThreadsIdle
    /\ ExtIdle

\* p = Stamp.parse_compact(line)
Decode ==
    /\ phase = "raw"
    /\ parsed' = ParseCompact(line)
    /\ phase' = "decoded"
    /\ UNCHANGED <<stamp, line>>
    /\ UNCHANGED projVars
    /\ UNCHANGED thrVars
    /\ UNCHANGED extVars

\* p = Stamp.parse_compact(line with one more field)
DecodeExtended(k, f) ==
    /\ phase = "raw"
    /\ Wrapped(line)
    /\ k \in 1..Len(Fields(line))
    /\ line' = InsertField(line, k, f)
    /\ parsed' = ParseCompact(line')
    /\ phase' = "extended"
    /\ UNCHANGED stamp
    /\ UNCHANGED projVars
    /\ UNCHANGED thrVars
    /\ UNCHANGED extVars

DecodeNext ==
    \/ Decode
    \/ \E k \in 1..Len(Fields(line)), f \in ExtraFields : DecodeExtended(k, f)

SpecDecode == DecodeInit /\ [][DecodeNext]_vars

\* C11: parse_compact returns None, and raises nothing, for every line that
\* does not start with '[OLO|' or does not end with ']'.
C11_UnwrappedIsRejected ==
    (phase = "decoded" /\ ~Wrapped(line)) => parsed = NoStamp

C11_Witness == phase = "decoded" /\ line = NotAStamp /\ parsed.kind = "None"

\* C12: parse_compact has no error outcome: for every line it returns a
\* Stamp or None, wrapped lines with a depth, max_depth or parent depth that
\* is no decimal number included.
C12_NoErrorOutcome ==
    phase = "decoded" => parsed.kind \in {"stamp", "None"}

\* C13: a wrapped line decodes to the same result with and without an extra
\* field that starts with none of the known tags.
C13_UnknownTagIgnored ==
    [][phase' = "extended" => parsed' = ParseCompact(line)]_vars

C13_Witness ==
    /\ phase = "extended"
    /\ parsed.kind = "stamp"
    /\ parsed.stamp.depth = 7
    /\ \E i \in 1..(Len(line) - 1) : line[i] = TagFork /\ line[i + 1] = "e"

----------------------------------------------------------------------------
\* The layout of the compact stamps

\* the order of parts in Stamp.compact
CanonicalOrder ==
    <<TagBranch, TagDepth, TagParent, TagState, TagGates, TagPin, TagLook,
      TagChain, TagTime>>

\* where a tag stands in that order
Rank(tag) == CHOOSE i \in 1..Len(CanonicalOrder) : CanonicalOrder[i] = tag

\* field f starts with a known tag
Tagged(f) == f # <<>> /\ f[1] \in KnownTags

\* the protocol marker comes first and the tagged fields follow in order
InCanonicalOrder(ln) ==
    LET fs == Fields(ln)
    IN /\ fs[1] = OLO
       /\ \A i, j \in 2..Len(fs) :
              (i < j /\ Tagged(fs[i]) /\ Tagged(fs[j]))
                  => Rank(fs[i][1]) < Rank(fs[j][1])

\* every stamp the Project keeps: of frozen tiers, branches and artifacts
TierStamps ==
    { tiers[i].frozen_stamp : i \in { k \in 1..Len(tiers) : tiers[k].frozen } }
    \cup UNION { { tiers[i].branches[j].stamp_at_fork :
                     j \in 1..Len(tiers[i].branches) } : i \in 1..Len(tiers) }
    \cup { artifacts[k].stamp_at_creation : k \in 1..Len(artifacts) }

\* C14: every compact stamp written, by Stamp.compact and by Tier.make_stamp
\* at any tier level, has its fields in the canonical order: marker, branch,
\* depth, parent, state, gates, pin, look, chain, timestamp.
C14_CanonicalOrder ==
    /\ phase \in {"compact", "parsed"} => InCanonicalOrder(line)
    /\ \A s \in TierStamps : InCanonicalOrder(s)

\* the part of C14 that is about Stamp.compact
CompactInCanonicalOrder ==
    phase \in {"compact", "parsed"} => InCanonicalOrder(line)

\* the part of C14 that is about the tier at level 0
LevelZeroInCanonicalOrder ==
    \A s \in TierStamps :
        StartsWith(s, <<"[">> \o OLO \o <<"|", TagBranch, "t", "0">>)
            => InCanonicalOrder(s)

\* no two separators side by side and no tag without a value
NoEmptyField(ln) ==
    \A i \in 1..Len(Fields(ln)) :
        /\ Fields(ln)[i] # <<>>
        /\ ~(Len(Fields(ln)[i]) = 1 /\ Tagged(Fields(ln)[i]))

\* the line has a field with this tag in front
HasField(ln, tag) ==
    \E i \in 1..Len(Fields(ln)) : Fields(ln)[i] # <<>> /\ Fields(ln)[i][1] = tag

\* every empty field of r is left out of ln
EmptyOmitted(r, ln) ==
    /\ r.branch = <<>> => ~HasField(ln, TagBranch)
    /\ r.parent = <<>> => ~HasField(ln, TagParent)
    /\ r.gates = <<>> => ~HasField(ln, TagGates)
    /\ r.pin = <<>> => ~HasField(ln, TagPin)
    /\ r.look = <<>> => ~HasField(ln, TagLook)
    /\ r.chain = <<>> => ~HasField(ln, TagChain)

\* C15: an empty branch, parent, gate list, pin, look or chain is left out
\* of the compact stamp with its separator: the line Stamp.compact writes has
\* no two adjacent separators and no tag followed by an empty value.
C15_EmptyFieldsOmitted ==
    phase \in {"compact", "parsed"} =>
        EmptyOmitted(stamp, line) /\ NoEmptyField(line)

\* C15 on the records that hold no separator
EmptyOmittedSeparatorFree ==
    (phase \in {"compact", "parsed"} /\ SeparatorFree(stamp)) =>
        EmptyOmitted(stamp, line) /\ NoEmptyField(line)

----------------------------------------------------------------------------
\* The stamp of a tier against the stamp of the codec

\* the checkpoint record of tier t under gates gs: depth, state, gates, pin
\* and the tier below as parent; no branch and no max_depth, as in the
\* scenario line [OLO|depth 5/0|OPEN|gates|pin|time]
TierRecord(t, gs) ==
    [DefaultStamp EXCEPT
        !.depth = t.master_depth,
        !.state = t.master_state,
        !.gates = [i \in 1..Len(gs) |->
                     StampGate(gs[i].letter, gs[i].question, gs[i].state)],
        !.pin = t.master_pin,
        !.parent = IF t.level > 0 THEN <<"t">> \o Str(t.level - 1) ELSE <<>>]

\* the fields of a line other than those with the given tags in front
RECURSIVE Without(_, _)
Without(fs, tags) ==
    IF fs = <<>> THEN <<>>
    ELSE IF Head(fs) # <<>> /\ Head(fs)[1] \in tags THEN Without(Tail(fs), tags)
    ELSE <<Head(fs)>> \o Without(Tail(fs), tags)

\* a line, timestamp aside
SansTime(ln) == Without(Fields(ln), {TagTime})

\* a line, timestamp and branch aside
SansTimeAndBranch(ln) == Without(Fields(ln), {TagTime, TagBranch})

\* the stamp the step has rendered and the tier it was rendered for, when
\* the step is a call that renders one
RenderedBy(op) ==
    IF op = "branch_from_master"
    THEN [stamp |-> tiers'[last'.ret[1]].branches[last'.ret[2]].stamp_at_fork,
          tier |-> tiers'[last'.ret[1]]]
    ELSE IF op = "collect_artifact"
    THEN [stamp |-> artifacts'[last'.ret[1]].stamp_at_creation,
          tier |-> tiers'[artifacts'[last'.ret[1]].source_tier + 1]]
    ELSE [stamp |-> tiers'[last'.ret[1] - 1].frozen_stamp,
          tier |-> tiers'[last'.ret[1] - 1]]

\* the step is a call that renders a stamp
Renders(op) ==
    /\ Called(op)
    /\ op \in {"branch_from_master", "collect_artifact", "inject"}
    /\ last'.ret # NoResult

\* C16: the stamp a Tier renders for itself is, timestamp aside, the line
\* Stamp.compact writes for the record with the same depth, state, gates, pin
\* and parent; for tier 0 at depth 5 with pin 'blue verified', gate A yes and
\* gate B open that is [OLO|depth 5/0|OPEN|A yes B open|blue-verified|time].
C16_TierStampIsCodecStamp ==
    [][ \A op \in {"branch_from_master", "collect_artifact", "inject"} :
          Renders(op) =>
            SansTime(RenderedBy(op).stamp)
              = SansTime(Compact(TierRecord(RenderedBy(op).tier, gates), <<>>))
      ]_vars

\* C16 with the branch field of the tier's stamp set aside as well
TierStampIsCodecStampSansBranch ==
    [][ \A op \in {"branch_from_master", "collect_artifact", "inject"} :
          Renders(op) =>
            SansTimeAndBranch(RenderedBy(op).stamp)
              = SansTimeAndBranch(
                    Compact(TierRecord(RenderedBy(op).tier, gates), <<>>))
      ]_vars

----------------------------------------------------------------------------
\* Gates under cycling and assignment

\* the states an assignment gives a gate of stamp.py
StampAssignedStates == {GlyphBlocked, GlyphRevisit}

\* gates of a Project and the Stamp of the demo, rendered once.  The list
\* `gates` of stamp.py and stamp.gates are one object (line 238 passes the
\* list itself and the dataclass keeps it): it is held in stamp.gates.
GateInit ==
    /\ gates = <<NewGate("A", "Blue?"), NewGate("B", "JPEG?")>>
    /\ tiers = <<>>
    /\ artifacts = <<>>
    /\ bucket = <<>>
    /\ last = Call("new", <<>>, <<None, None>>)
    /\ calls = 0
    /\ ThreadsIdle
    /\ stamp = DemoStamp
    /\ line \in { Compact(DemoStamp, ts) : ts \in Timestamps }
    /\ parsed = Unparsed
    /\ phase = "compact"
    /\ ExtIdle

\* one more call on the Stamp or on one of its gates
StampCall ==
    /\ calls < MaxCalls
    /\ calls' = calls + 1
    /\ UNCHANGED <<gates, tiers, artifacts, bucket>>
    /\ UNCHANGED thrVars
    /\ UNCHANGED extVars
    /\ UNCHANGED <<parsed, phase>>

\* gates[i].cycle() on the list the Stamp was built with
StampCycle(i) ==
    /\ i \in 1..Len(stamp.gates)
    /\ StampCall
    /\ stamp' = [stamp EXCEPT !.gates[i] = StampGateCycle(stamp.gates[i])]
    /\ last' = Call("stamp_cycle", <<stamp.gates[i].letter>>, <<None, None>>)
    /\ UNCHANGED line

\* gates[i].state = st on the list the Stamp was built with
StampAssign(i, st) ==
    /\ i \in 1..Len(stamp.gates)
    /\ StampCall
    /\ stamp' = [stamp EXCEPT !.gates[i].state = st]
    /\ last' = Call("stamp_assign", <<stamp.gates[i].letter>>, <<None, None>>)
    /\ UNCHANGED line

\* stamp.compact() once more
Recompact(ts) ==
    /\ StampCall
    /\ line' = Compact(stamp, ts)
    /\ last' = Call("compact", <<>>, <<None, None>>)
    /\ UNCHANGED stamp

GateNext ==
    \/ \E i \in 1..Len(gates) : GateCycle(i)
    \/ \E i \in 1..Len(gates), st \in AssignedStates : GateAssign(i, st)
    \/ \E i \in 1..Len(stamp.gates) : StampCycle(i)
    \/ \E i \in 1..Len(stamp.gates), st \in StampAssignedStates : StampAssign(i, st)
    \/ \E ts \in Timestamps : Recompact(ts)

SpecGate == GateInit /\ [][GateNext]_vars

\* the four states of the cycle and what follows each
FourStates == {GlyphOpen, GlyphHalf, GlyphYes, GlyphNo}

Successor(s) ==
    CASE s = GlyphOpen -> GlyphHalf
      [] s = GlyphHalf -> GlyphYes
      [] s = GlyphYes -> GlyphNo
      [] s = GlyphNo -> GlyphOpen

\* the gate of list gs the step has acted on
Target(gs) == CHOOSE i \in 1..Len(gs) : gs[i].letter = last'.arg[1]

\* C17: cycle takes a gate along OPEN, HALF, YES, NO and back to OPEN and
\* changes nothing else; three more cycles bring a gate of these four states
\* back to where it was.  For the Gate of gently_tiers.py and of stamp.py.
C17_CycleOrder ==
    [][ /\ (Called("cycle") /\ gates[Target(gates)].state \in FourStates) =>
              LET i == Target(gates)
              IN /\ gates' = [gates EXCEPT ![i].state = Successor(gates[i].state)]
                 /\ TierGateCycle(TierGateCycle(TierGateCycle(gates'[i]))) = gates[i]
        /\ (Called("stamp_cycle")
             /\ stamp.gates[Target(stamp.gates)].state \in FourStates) =>
              LET i == Target(stamp.gates)
              IN /\ stamp' = [stamp EXCEPT
                                !.gates[i].state = Successor(stamp.gates[i].state)]
                 /\ StampGateCycle(StampGateCycle(StampGateCycle(stamp'.gates[i])))
                      = stamp.gates[i]
      ]_vars

\* four cycle calls on gate A of the Project, back at OPEN
C17_Witness ==
    /\ calls = 4
    /\ last.op = "cycle"
    /\ last.arg = <<"A">>
    /\ gates = <<NewGate("A", "Blue?"), NewGate("B", "JPEG?")>>
    /\ stamp = DemoStamp

\* C18: cycle never takes a gate of the four states to BLOCKED or REVISIT,
\* and a gate comes to be in BLOCKED or REVISIT by an assignment only.
C18_CycleStaysInFour ==
    [][ /\ Called("cycle") =>
              \A i \in 1..Len(gates) :
                  gates[i].state \in FourStates => gates'[i].state \in FourStates
        /\ Called("stamp_cycle") =>
              \A i \in 1..Len(stamp.gates) :
                  stamp.gates[i].state \in FourStates
                      => stamp'.gates[i].state \in FourStates
        /\ \A i \in 1..Len(gates) :
              (gates[i].state \in FourStates /\ gates'[i].state \notin FourStates)
                  => last'.op = "assign"
        /\ \A i \in 1..Len(stamp.gates) :
              (stamp.gates[i].state \in FourStates
               /\ stamp'.gates[i].state \notin FourStates)
                  => last'.op = "stamp_assign"
      ]_vars

\* gate A of the Stamp, YES at first, cycled past NO to OPEN
C18_Witness ==
    /\ last.op = "stamp_cycle"
    /\ last.arg = <<"A">>
    /\ calls = 2
    /\ stamp.gates[1].state = GlyphOpen

\* C19: cycle of stamp.py on a gate in BLOCKED or REVISIT treats it as OPEN:
\* the gate is in HALF afterwards, from where four cycles lead back to HALF.
C19_FallbackIsOpen ==
    [][ (Called("stamp_cycle")
         /\ stamp.gates[Target(stamp.gates)].state \in {GlyphBlocked, GlyphRevisit}) =>
           LET i == Target(stamp.gates)
               g == stamp'.gates[i]
           IN /\ stamp' = [stamp EXCEPT !.gates[i].state = GlyphHalf]
              /\ StampGateCycle(g).state = GlyphYes
              /\ StampGateCycle(StampGateCycle(g)).state = GlyphNo
              /\ StampGateCycle(StampGateCycle(StampGateCycle(g))).state = GlyphOpen
              /\ StampGateCycle(StampGateCycle(StampGateCycle(StampGateCycle(g)))) = g
      ]_vars

\* gate B of the Stamp, REVISIT at first, cycled once
C19_Witness ==
    /\ last.op = "stamp_cycle"
    /\ last.arg = <<"B">>
    /\ calls = 1
    /\ stamp.gates[2].state = GlyphHalf

\* the gate field of a line
GateFieldOf(ln) ==
    { Fields(ln)[i] : i \in { k \in 1..Len(Fields(ln)) :
                                 Fields(ln)[k] # <<>> /\ Fields(ln)[k][1] = TagGates } }

\* C20: the gates of a Stamp are a snapshot: once the Stamp is built,
\* cycling or assigning a gate of the set it was built from leaves the gate
\* field of its compact line as it was.
C20_GatesAreSnapshot ==
    [][ Called("compact") => GateFieldOf(line') = GateFieldOf(line) ]_vars

----------------------------------------------------------------------------
\* Frame properties of the Project, one caller at a time

\* the step is a gate cycle or a gate assignment
GateStep == Called("cycle") \/ Called("assign")

\* what a copy of the gate set holds
GateValues(gs) ==
    [i \in 1..Len(gs) |->
        [letter |-> gs[i].letter, question |-> gs[i].question,
         state |-> gs[i].state]]

\* C21: what the tier engine captures is a copy: an Artifact's gate_snapshot
\* holds the gates as they are when it is made, and a later gate cycle or
\* assignment changes no Artifact (gate_snapshot, stamp_at_creation), no
\* Tier (frozen_stamp) and no Branch (stamp_at_fork), only the gates.
C21_SnapshotsAreCopies ==
    [][ /\ GateStep => (artifacts' = artifacts /\ tiers' = tiers /\ bucket' = bucket)
        /\ (Called("collect_artifact") /\ last'.ret # NoResult) =>
              artifacts'[last'.ret[1]].gate_snapshot = GateValues(gates)
        /\ (Called("inject") /\ last'.ret # NoResult) =>
              artifacts'[last'.ret[2]].gate_snapshot = GateValues(gates)
      ]_vars

\* a gate has moved on after an artifact captured it
C21_Witness ==
    /\ last.op = "cycle"
    /\ \E k \in 1..Len(artifacts) :
          /\ Len(artifacts[k].gate_snapshot) = Len(gates)
          /\ \E i \in 1..Len(gates) :
                /\ artifacts[k].gate_snapshot[i].state = GlyphOpen
                /\ gates[i].state = GlyphHalf

\* C22: a frozen Tier is history: no step changes its branches, master
\* depth, state and pin, frozen_stamp or promoted_by, and branch_from_master
\* adds its Branch to an unfrozen tier.
C22_FrozenIsReadOnly ==
    [][ /\ Len(tiers') >= Len(tiers)
        /\ \A i \in 1..Len(tiers) : tiers[i].frozen => tiers'[i] = tiers[i]
        /\ Called("branch_from_master") =>
              /\ ~tiers'[last'.ret[1]].frozen
              /\ Len(tiers'[last'.ret[1]].branches) = last'.ret[2]
      ]_vars

\* a branch forked after a promotion, on the tier above the frozen one
C22_Witness ==
    /\ last.op = "branch_from_master"
    /\ Len(tiers) = 2
    /\ tiers[1].frozen
    /\ Len(tiers[1].branches) = 1
    /\ Len(tiers[2].branches) = 1

\* C23: branch_from_master on a project with tiers adds one Branch to the
\* unfrozen tier, forked_at_depth the tier's master depth and stamp_at_fork
\* the tier's stamp of that moment, and changes nothing else.
C23_BranchFromMasterFrame ==
    [][ (Called("branch_from_master") /\ tiers # <<>>) =>
          LET i == LastUnfrozen(tiers)
              n == Len(tiers[i].branches)
              b == tiers'[i].branches[n + 1]
          IN /\ last'.ret = <<i, n + 1>>
             /\ Len(tiers'[i].branches) = n + 1
             /\ tiers' = [tiers EXCEPT ![i].branches = Append(tiers[i].branches, b)]
             /\ b.forked_at_depth = tiers[i].master_depth
             /\ \E ts \in Timestamps :
                   b.stamp_at_fork = MakeStamp(tiers[i], ProjectId, gates, ts)
             /\ artifacts' = artifacts
             /\ bucket' = bucket
             /\ gates' = gates
      ]_vars

\* a branch forked from a master at depth 5
C23_Witness ==
    /\ last.op = "branch_from_master"
    /\ tiers[last.ret[1]].master_depth = 5
    /\ tiers[last.ret[1]].branches[last.ret[2]].forked_at_depth = 5

\* a tier list with every tier frozen
AllFrozen(ts) == [i \in 1..Len(ts) |-> [ts[i] EXCEPT !.frozen = TRUE]]

\* C24: current_tier returns the last unfrozen tier and changes nothing when
\* there is one; with no unfrozen tier (all frozen, or no tier) it appends an
\* unfrozen tier with level = number of tiers before and returns that.
C24_CurrentTier ==
    [][ Called("current_tier") =>
          /\ UNCHANGED <<gates, artifacts, bucket>>
          /\ IF Unfrozen(tiers) # {}
             THEN /\ tiers' = tiers
                  /\ last'.ret[1] \in Unfrozen(tiers)
                  /\ \A i \in Unfrozen(tiers) : i <= last'.ret[1]
             ELSE /\ tiers' = Append(tiers, TierOfLevel(Len(tiers)))
                  /\ last'.ret[1] = Len(tiers) + 1
          /\ CurrentTier(AllFrozen(tiers)) =
                [tiers |-> Append(AllFrozen(tiers), TierOfLevel(Len(tiers))),
                 idx |-> Len(tiers) + 1]
      ]_vars

\* current_tier called after a promotion: the tier above the frozen one
C24_WitnessExisting ==
    /\ last.op = "current_tier"
    /\ last.ret[1] = 2
    /\ tiers[1].frozen
    /\ Len(tiers) = 2

\* current_tier called first on a project without tiers
C24_Witness ==
    /\ last.op = "current_tier"
    /\ calls = 1
    /\ Len(tiers) = 1

\* C25: the Artifact inject makes has origin TIER_AUTO, the level of the
\* frozen tier as source_tier, no source_branch, the gates of that moment as
\* gate_snapshot and the frozen_stamp as stamp_at_creation; the bucket never
\* holds an Artifact of that origin.
C25_AutoArtifact ==
    [][ /\ (Called("inject") /\ last'.ret # NoResult) =>
              LET auto == artifacts'[last'.ret[2]]
                  old == tiers'[last'.ret[1] - 1]
              IN /\ last'.ret[2] = Len(artifacts) + 1
                 /\ auto.origin = "tier-auto"
                 /\ old.frozen
                 /\ auto.source_tier = old.level
                 /\ auto.source_branch = NoBranch
                 /\ auto.gate_snapshot = GateValues(gates)
                 /\ auto.stamp_at_creation = old.frozen_stamp
        /\ \A k \in 1..Len(bucket') :
              artifacts'[bucket'[k]].origin # "tier-auto"
      ]_vars

\* an automatic artifact on the shelf and a later collect into the bucket
C25_Witness ==
    /\ last.op = "collect_artifact"
    /\ Len(bucket) = 2
    /\ \E k \in 1..Len(artifacts) : artifacts[k].origin = "tier-auto"


----------------------------------------------------------------------------
\* gently_model.py: the Project with its master chat, branches and bucket

\* most branches and most bucket artifacts of the gently_model Project
MaxBucket == 2

\* ArtifactStatus
StatusCollected == "collected"
StatusStaged == "staged"
StatusInjected == "injected"
StatusEdited == "edited"

\* pin[:25]
ModelPinLen == 25

\* the fork type of the master, which has none
NoFork == "none"

\* an Optional[str] holding nothing, and one holding s
Nothing == <<>>
Some(s) == <<s>>

\* Stamp.compact of the gently_model Stamp at clock reading ts; an id that
\* is None is the empty string here, which the code treats alike
ModelCompact(st, ts) ==
    LET gs == GateString(st.gates)
        branch == IF st.branch_id # <<>> THEN st.branch_id
                  ELSE <<"m", "a", "s", "t", "e", "r">>
        pin == IF st.pin # <<>>
               THEN Replace(Take(st.pin, ModelPinLen), " ", "-")
               ELSE <<>>
        parts == << OLO,
                    <<TagBranch>> \o st.project_id \o <<"/">> \o branch,
                    <<TagDepth>> \o Str(st.depth) \o <<"/">> \o Str(st.max_depth),
                    <<TagState>> \o st.conv_state,
                    IF gs # <<>> THEN <<TagGates>> \o gs ELSE <<>>,
                    IF pin # <<>> THEN <<TagPin>> \o pin ELSE <<>> >>
        up == IF st.parent_id # <<>>
              THEN <<(<<TagParent>> \o st.parent_id \o <<"@", "d">> \o Str(st.depth))>>
              ELSE <<>>
        fork == IF st.fork_type # NoFork
                THEN <<(<<TagFork, st.fork_type>>)>>
                ELSE <<>>
        all == parts \o up \o fork \o <<(<<TagTime>> \o ts)>>
    IN <<"[">> \o Join(NonEmpty(all), "|") \o <<"]">>

\* MasterChat.make_stamp(project_id, gates)
MasterMakeStamp(mc, project_id, gs) ==
    [project_id |-> project_id, branch_id |-> <<>>, depth |-> mc.depth,
     max_depth |-> mc.max_depth, conv_state |-> mc.conv_state, gates |-> gs,
     pin |-> mc.pin, parent_id |-> <<>>, fork_type |-> NoFork]

\* Branch.make_stamp(project_id, gates)
BranchMakeStamp(b, project_id, gs) ==
    [project_id |-> project_id, branch_id |-> b.id, depth |-> b.depth,
     max_depth |-> b.depth, conv_state |-> b.conv_state, gates |-> gs,
     pin |-> b.pin, parent_id |-> <<"m", "a", "s", "t", "e", "r">>,
     fork_type |-> b.fork_type]

\* MasterChat() with the dataclass defaults
NewMasterChat == [depth |-> 0, max_depth |-> 0, conv_state |-> ConvOPEN, pin |-> <<>>]

\* Project(id, name, color) holding the gates gs; an artifact is held once,
\* in the bucket, and a Branch lists the bucket positions of its artifacts
NewModelProject(id, gs) ==
    [id |-> id, master |-> NewMasterChat, branches |-> <<>>, gates |-> gs,
     bucket |-> <<>>]

\* f"{self.id}-{name}"
ModelBranchId(project_id, name) == project_id \o <<"-">> \o name

\* Branch(...) as Project.branch_from_master builds it
ModelBranch(p, name, fork_type, ts) ==
    [id |-> ModelBranchId(p.id, name), name |-> name, fork_type |-> fork_type,
     forked_at_depth |-> p.master.depth,
     stamp_at_fork |-> ModelCompact(MasterMakeStamp(p.master, p.id, p.gates), ts),
     depth |-> 0, conv_state |-> ConvOPEN, pin |-> <<>>, artifacts |-> <<>>,
     order |-> Len(p.branches)]

\* next((b for b in self.branches if b.id == branch_id), None)
FirstBranch(p, branch_id) ==
    LET hits == { i \in 1..Len(p.branches) : p.branches[i].id = branch_id }
    IN IF hits = {} THEN None
       ELSE CHOOSE i \in hits : \A j \in hits : i <= j

\* next((a for a in self.bucket if a.id == artifact_id), None)
FirstInBucket(p, artifact_id) ==
    LET hits == { i \in 1..Len(p.bucket) : p.bucket[i].id = artifact_id }
    IN IF hits = {} THEN None
       ELSE CHOOSE i \in hits : \A j \in hits : i <= j

\* Artifact(...) as Project.collect_from_branch builds it
ModelArtifact(p, b, name, content, ts) ==
    [id |-> ManualId(Len(p.bucket)), name |-> name, content |-> content,
     source_branch |-> b.id, source_depth |-> b.depth,
     status |-> StatusCollected, fork_type |-> b.fork_type,
     stamp_at_capture |-> ModelCompact(BranchMakeStamp(b, p.id, p.gates), ts),
     edited_content |-> Nothing]

\* Artifact.display_content; '' is falsy
DisplayContent(a) ==
    IF a.edited_content # Nothing /\ a.edited_content # Some(<<>>)
    THEN a.edited_content[1] ELSE a.content

\* the inputs of the gently_model Project
ModelProjectId == <<"p">>
ModelBranchNames == { <<"j">>, <<"k">> }
ModelForkTypes == {"explore", "dead"}
NewContents == { <<"x">>, <<"y">> }
ModelArtifactIds == { ManualId(n) : n \in 0..MaxBucket }
ModelBranchIds == { ModelBranchId(ModelProjectId, n) : n \in ModelBranchNames }
                     \cup { BogusId }

\* every program but the gently_model Project stays as it started
ModelFrame ==
    /\ calls' = calls + 1
    /\ UNCHANGED <<gates, tiers, artifacts, bucket>>
    /\ UNCHANGED thrVars
    /\ UNCHANGED codecVars
    /\ UNCHANGED <<saved, windows, app>>

ModelInit ==
    /\ gates = <<>>
    /\ tiers = <<>>
    /\ artifacts = <<>>
    /\ bucket = <<>>
    /\ last = Call("none", None, None)
    /\ calls = 0
    /\ ThreadsIdle
    /\ CodecIdle
    /\ saved = None
    /\ windows = <<>>
    /\ app = None
    /\ \E gs \in GateSets : workbench = NewModelProject(ModelProjectId, gs)

\* Project.branch_from_master(name, fork_type)
ModelBranchFromMaster(name, fork_type, ts) ==
    /\ calls < MaxCalls
    /\ Len(workbench.branches) < MaxBucket
    /\ workbench' = [workbench EXCEPT !.branches =
                        Append(@, ModelBranch(workbench, name, fork_type, ts))]
    /\ last' = Call("branch_from_master", name, Len(workbench.branches) + 1)
    /\ ModelFrame

\* Project.collect_from_branch(branch_id, name, content)
ModelCollect(branch_id, name, content, ts) ==
    /\ calls < MaxCalls
    /\ Len(workbench.bucket) < MaxBucket
    /\ LET k == FirstBranch(workbench, branch_id)
       IN IF k = None
          THEN /\ workbench' = workbench
               /\ last' = Call("collect_from_branch", branch_id, None)
          ELSE LET art == ModelArtifact(workbench, workbench.branches[k],
                                        name, content, ts)
                   n == Len(workbench.bucket) + 1
               IN /\ workbench' = [workbench EXCEPT
                                      !.branches[k].artifacts = Append(@, n),
                                      !.bucket = Append(@, art)]
                  /\ last' = Call("collect_from_branch", branch_id, n)
    /\ ModelFrame

\* Project.inject_to_master(artifact_id)
ModelInject(artifact_id) ==
    /\ calls < MaxCalls
    /\ LET k == FirstInBucket(workbench, artifact_id)
       IN IF k = None
          THEN /\ workbench' = workbench
               /\ last' = Call("inject_to_master", artifact_id, None)
          ELSE /\ workbench' = [workbench EXCEPT
                                   !.bucket[k].status = StatusInjected,
                                   !.master.depth = @ + 1]
               /\ last' = Call("inject_to_master", artifact_id, k)
    /\ ModelFrame

\* Project.stage_artifact(artifact_id)
ModelStage(artifact_id) ==
    /\ calls < MaxCalls
    /\ LET k == FirstInBucket(workbench, artifact_id)
       IN IF k = None
          THEN /\ workbench' = workbench
               /\ last' = Call("stage_artifact", artifact_id, None)
          ELSE /\ workbench' = [workbench EXCEPT !.bucket[k].status = StatusStaged]
               /\ last' = Call("stage_artifact", artifact_id, k)
    /\ ModelFrame

\* Project.edit_artifact(artifact_id, new_content)
ModelEdit(artifact_id, new_content) ==
    /\ calls < MaxCalls
    /\ LET k == FirstInBucket(workbench, artifact_id)
       IN IF k = None
          THEN /\ workbench' = workbench
               /\ last' = Call("edit_artifact", artifact_id, None)
          ELSE /\ workbench' = [workbench EXCEPT
                                   !.bucket[k].edited_content = Some(new_content),
                                   !.bucket[k].status = StatusEdited]
               /\ last' = Call("edit_artifact", artifact_id, k)
    /\ ModelFrame

ModelNext ==
    \/ \E name \in ModelBranchNames, ft \in ModelForkTypes, ts \in Timestamps :
          ModelBranchFromMaster(name, ft, ts)
    \/ \E b \in ModelBranchIds, name \in ArtifactNames, c \in Contents,
          ts \in Timestamps : ModelCollect(b, name, c, ts)
    \/ \E id \in ModelArtifactIds : ModelInject(id)
    \/ \E id \in ModelArtifactIds : ModelStage(id)
    \/ \E id \in ModelArtifactIds, c \in NewContents : ModelEdit(id, c)

SpecModel == ModelInit /\ [][ModelNext]_vars

\* C26: an Artifact is edited at most once: once an artifact has edited
\* content, a further edit_artifact leaves that edited content as it is, and
\* no step changes the content an artifact was collected with.
C26_EditedAtMostOnce ==
    [][ \A k \in 1..Len(workbench.bucket) :
           /\ workbench'.bucket[k].content = workbench.bucket[k].content
           /\ workbench.bucket[k].edited_content # Nothing =>
                 workbench'.bucket[k].edited_content
                    = workbench.bucket[k].edited_content
      ]_vars

\* the half of C26 the code keeps: no step changes the collected content
ContentNeverChanges ==
    [][ \A k \in 1..Len(workbench.bucket) :
           workbench'.bucket[k].content = workbench.bucket[k].content ]_vars

----------------------------------------------------------------------------
\* stamp.py: the persisted record

\* datetime.now().isoformat() at the moment of to_dict
IsoClock == { <<"2", "0", "2", "6", "-", "0", "1", "-", "0", "3", "T",
                "0", "9", ":", "0", "0", ":", "0", "0">> }

\* Stamp.to_dict at clock reading now
ToDict(s, now) ==
    [branch |-> s.branch, depth |-> s.depth, max_depth |-> s.max_depth,
     parent |-> s.parent, parent_depth |-> s.parent_depth, state |-> s.state,
     gates |-> [i \in 1..Len(s.gates) |->
                  [letter |-> s.gates[i].letter,
                   question |-> s.gates[i].question,
                   state |-> s.gates[i].state]],
     pin |-> s.pin, look |-> s.look, chain |-> s.chain,
     timestamp |-> now]

\* Stamp.from_dict(d): the constructor call names nine keys, the gates are
\* rebuilt, and the timestamp keeps the dataclass default
FromDict(d) ==
    [branch |-> d.branch, depth |-> d.depth, max_depth |-> d.max_depth,
     parent |-> d.parent, parent_depth |-> d.parent_depth, state |-> d.state,
     gates |-> [i \in 1..Len(d.gates) |->
                  StampGate(d.gates[i].letter, d.gates[i].question,
                            d.gates[i].state)],
     pin |-> d.pin, look |-> d.look, chain |-> d.chain,
     timestamp |-> DefaultStamp.timestamp]

\* the Stamps saved: those of the codec, with and without a timestamp
PersistRecords ==
    StampRecords \cup
    { [r EXCEPT !.timestamp = ts] : r \in StampRecords, ts \in Timestamps }

\* Stamp(...) constructed, nothing saved
PersistInit ==
    /\ stamp \in PersistRecords
    /\ line = <<>>
    /\ parsed = Unparsed
    /\ phase = "new"
    /\ gates = <<>>
    /\ tiers = <<>>
    /\ artifacts = <<>>
    /\ bucket = <<>>
    /\ last = Call("new", <<>>, <<None, None>>)
    /\ calls = 0
    /\ ThreadsIdle
    /\ ExtIdle

\* stamp.save(path); the JSON text written holds the dict of to_dict, and
\* JSON carries its strings, integers and lists unchanged
Save(now) ==
    /\ phase = "new"
    /\ saved' = ToDict(stamp, now)
    /\ phase' = "saved"
    /\ UNCHANGED <<stamp, line, parsed>>
    /\ UNCHANGED projVars
    /\ UNCHANGED thrVars
    /\ UNCHANGED <<workbench, windows, app>>

\* loaded = Stamp.load(path)
Load ==
    /\ phase = "saved"
    /\ parsed' = FromDict(saved)
    /\ phase' = "loaded"
    /\ UNCHANGED <<stamp, line>>
    /\ UNCHANGED projVars
    /\ UNCHANGED thrVars
    /\ UNCHANGED extVars

PersistNext ==
    \/ \E now \in IsoClock : Save(now)
    \/ Load

SpecPersist == PersistInit /\ [][PersistNext]_vars

\* the keys of the persisted record but the timestamp
PersistedKeys(r) ==
    [branch |-> r.branch, depth |-> r.depth, max_depth |-> r.max_depth,
     parent |-> r.parent, parent_depth |-> r.parent_depth, state |-> r.state,
     gates |-> r.gates, pin |-> r.pin, look |-> r.look, chain |-> r.chain]

\* C27: the persisted record round-trips: the Stamp that load returns after
\* save has every key of the record as the saved Stamp has it: branch,
\* depth, max_depth, parent, parent_depth, state, gates with letter,
\* question and state, pin, look, chain, and the timestamp (that of the
\* Stamp, or else the one the record was written with).
C27_PersistedRoundTrip ==
    phase = "loaded" =>
        /\ PersistedKeys(parsed) = PersistedKeys(stamp)
        /\ parsed.timestamp \in {stamp.timestamp, saved.timestamp}

\* every key but the timestamp does round-trip
RoundTripSansTimestamp ==
    phase = "loaded" => PersistedKeys(parsed) = PersistedKeys(stamp)

\* a Stamp without a timestamp comes back whole, though its record on disk
\* holds the clock reading
LoadedWithoutTimestamp ==
    (phase = "loaded" /\ stamp.timestamp = <<>>) =>
        (parsed = stamp /\ saved.timestamp # parsed.timestamp)

----------------------------------------------------------------------------
\* gently_windows.py: windows, their clans and their constants

\* most clans of one window
MaxClans == 4

\* most calls made on the windows
MaxWinCalls == 4

\* ClanState
ClanActive == "active"
ClanFrozen == "frozen"
ClanDone == "done"

\* clan.pin[:20]
FinalStampPinLen == 20

\* random.randint(1000, 9999)
RandomIds == {1000, 9999}

\* "win-root"
RootWindowId == <<"w", "i", "n", "-", "r", "o", "o", "t">>

\* f"{self.id}/clan-{len(self.clans)}"
WinClanId(win) ==
    win.id \o <<"/", "c", "l", "a", "n", "-">> \o Str(Len(win.clans))

\* Clan(...) as GentlyWindow.add_clan builds it
WinClan(win, name, gs) ==
    [id |-> WinClanId(win), name |-> name, state |-> ClanActive,
     depth |-> 0, pin |-> <<>>, gates |-> gs]

\* f"const-{clan.id}"
ConstantId(clan) == <<"c", "o", "n", "s", "t", "-">> \o clan.id

\* f"[OLO|{clan.id}|d{clan.depth}|{clan.pin[:20]}]"
FinalStamp(clan) ==
    <<"[">> \o OLO \o <<"|">> \o clan.id \o <<"|", "d">> \o Str(clan.depth)
    \o <<"|">> \o Take(clan.pin, FinalStampPinLen) \o <<"]">>

\* Constant(...) as GentlyWindow.collapse builds it from a source clan
WinConstant(clan) ==
    [id |-> ConstantId(clan), source_name |-> clan.name,
     source_type |-> "clan", summary |-> clan.pin,
     findings |-> IF clan.pin # <<>> THEN <<clan.pin>> ELSE <<>>,
     gate_snapshot |-> [i \in 1..Len(clan.gates) |->
                          [letter |-> clan.gates[i].letter,
                           state |-> clan.gates[i].state,
                           question |-> clan.gates[i].question]],
     depth_at_freeze |-> clan.depth, final_stamp |-> FinalStamp(clan),
     frozen |-> TRUE]

\* sources picked by id alone, frozen clans included
WinSourcesAnyState(win, clan_ids) ==
    { i \in 1..Len(win.clans) : win.clans[i].id \in clan_ids }

\* [c for c in self.clans if c.id in clan_ids and c.state == ClanState.ACTIVE],
\* as positions in self.clans
WinSources(win, clan_ids) ==
    { i \in 1..Len(win.clans) :
        win.clans[i].id \in clan_ids /\ win.clans[i].state = ClanActive }

\* the positions in s, in ascending order
Ascending(s) ==
    LET RECURSIVE From(_)
        From(k) == IF k > MaxClans + 1 THEN <<>>
                   ELSE IF k \in s THEN <<k>> \o From(k + 1) ELSE From(k + 1)
    IN From(1)

\* constants that leave out what the parent window holds
WinNewConstantsOwnOnly(win, src) ==
    [k \in 1..Len(Ascending(src)) |-> WinConstant(win.clans[Ascending(src)[k]])]

\* new_constants of collapse: the parent's list copied, one Constant
\* appended per source
WinNewConstants(win, src) ==
    win.constants \o
    [k \in 1..Len(Ascending(src)) |-> WinConstant(win.clans[Ascending(src)[k]])]

\* f"win-{self.id}-{len(self.child_window_ids)}-{random}"
ChildWindowId(win, rnd) ==
    <<"w", "i", "n", "-">> \o win.id \o <<"-">>
    \o Str(Len(win.child_window_ids)) \o <<"-">> \o Str(rnd)

\* GentlyWindow(id, name, parent_window_id, constants)
NewWindow(id, name, parent, constants) ==
    [id |-> id, name |-> name, parent_window_id |-> parent,
     constants |-> constants, clans |-> <<>>, child_window_ids |-> <<>>]

\* the inputs of the windows
WindowNames == { <<"W">> }
WinClanNames == { <<"n">> }
WinGateSets == { <<NewGate("A", "q")>> }
WinDepths == {3}
WinPins == { <<"v">> }
WinGateStates == {GlyphYes}

\* the ids a caller passes to collapse: any of the window's clans, and one
\* that names nothing
CollapseIds(win) ==
    SUBSET ({ win.clans[i].id : i \in 1..Len(win.clans) } \cup {BogusId})

\* app.create_root_window(name), before or after its first two add_clan calls
RootWindows ==
    LET root == NewWindow(RootWindowId, <<"W">>, <<>>, <<>>)
        one == [root EXCEPT !.clans = Append(@, WinClan(root, <<"n">>, <<NewGate("A", "q")>>))]
        two == [one EXCEPT !.clans = Append(@, WinClan(one, <<"n">>, <<NewGate("A", "q")>>))]
    IN {root, two}

\* every program but the windows stays as it started
WinFrame ==
    /\ calls' = calls + 1
    /\ UNCHANGED <<gates, tiers, artifacts, bucket>>
    /\ UNCHANGED thrVars
    /\ UNCHANGED codecVars
    /\ UNCHANGED <<saved, workbench, app>>

WinInit ==
    /\ gates = <<>>
    /\ tiers = <<>>
    /\ artifacts = <<>>
    /\ bucket = <<>>
    /\ last = Call("none", None, None)
    /\ calls = 0
    /\ ThreadsIdle
    /\ CodecIdle
    /\ saved = None
    /\ workbench = None
    /\ app = None
    /\ \E w \in RootWindows : windows = <<w>>

\* windows[w].add_clan(name, context, color, gates)
WinAddClan(w, name, gs) ==
    /\ calls < MaxWinCalls
    /\ Len(windows[w].clans) < MaxClans
    /\ windows' = [windows EXCEPT ![w].clans =
                      Append(@, WinClan(windows[w], name, gs))]
    /\ last' = Call("add_clan", <<w>>, Len(windows[w].clans) + 1)
    /\ WinFrame

\* windows[w].collapse(clan_ids, new_window_name); the child window is the
\* next of the windows made
WinCollapse(w, clan_ids, name, rnd) ==
    /\ calls < MaxWinCalls
    /\ LET win == windows[w]
           src == WinSources(win, clan_ids)
           child == NewWindow(ChildWindowId(win, rnd), name, win.id,
                              WinNewConstants(win, src))
       IN IF Cardinality(src) < 2
          THEN /\ windows' = windows
               /\ last' = Call("collapse", <<w, clan_ids>>, None)
          ELSE /\ windows' =
                    Append([windows EXCEPT
                              ![w].clans = [i \in 1..Len(win.clans) |->
                                  IF i \in src
                                  THEN [win.clans[i] EXCEPT !.state = ClanFrozen]
                                  ELSE win.clans[i]],
                              ![w].child_window_ids = Append(@, child.id)],
                           child)
               /\ last' = Call("collapse", <<w, clan_ids>>, Len(windows) + 1)
    /\ WinFrame

\* clan.depth = d; clan.pin = pin, on the clan add_clan returned
WinClanWork(w, c, d, pin) ==
    /\ calls < MaxWinCalls
    /\ windows' = [windows EXCEPT ![w].clans[c].depth = d,
                                  ![w].clans[c].pin = pin]
    /\ last' = Call("work", <<w, c>>, None)
    /\ WinFrame

\* clan.gates[i].state = st
WinClanGate(w, c, i, st) ==
    /\ calls < MaxWinCalls
    /\ windows' = [windows EXCEPT ![w].clans[c].gates[i].state = st]
    /\ last' = Call("gate", <<w, c>>, None)
    /\ WinFrame

WinNext ==
    \/ \E w \in 1..Len(windows), name \in WinClanNames, gs \in WinGateSets :
          WinAddClan(w, name, gs)
    \/ \E w \in 1..Len(windows), name \in WindowNames, rnd \in RandomIds :
          \E ids \in CollapseIds(windows[w]) : WinCollapse(w, ids, name, rnd)
    \/ \E w \in 1..Len(windows) : \E c \in 1..Len(windows[w].clans) :
          \E d \in WinDepths, pin \in WinPins : WinClanWork(w, c, d, pin)
    \/ \E w \in 1..Len(windows) : \E c \in 1..Len(windows[w].clans) :
          \E i \in 1..Len(windows[w].clans[c].gates), st \in WinGateStates :
             WinClanGate(w, c, i, st)

SpecWindows == WinInit /\ [][WinNext]_vars

\* what a Constant is to say of a clan c as it stands
SaysOf(k, c) ==
    /\ k.summary = c.pin
    /\ k.depth_at_freeze = c.depth
    /\ Len(k.gate_snapshot) = Len(c.gates)
    /\ \A i \in 1..Len(c.gates) :
          /\ k.gate_snapshot[i].letter = c.gates[i].letter
          /\ k.gate_snapshot[i].state = c.gates[i].state

\* C30: constants accumulate and are fixed: the window a collapse spawns
\* holds the parent's constants in order, then exactly one Constant per
\* collapsed clan, whose summary is the clan's pin and whose gate snapshot
\* and depth are the clan's as of the freeze; and no step (add_clan, a
\* further collapse, a gate or pin change of any clan) alters the constants
\* of a window that exists.
C30_ConstantsAccumulate ==
    [][ /\ \A i \in 1..Len(windows) :
              windows'[i].constants = windows[i].constants
        /\ (Called("collapse") /\ last'.ret # None) =>
              LET win == windows[last'.arg[1]]
                  src == Ascending(WinSources(win, last'.arg[2]))
                  got == windows'[last'.ret].constants
                  n == Len(win.constants)
              IN /\ Len(got) = n + Len(src)
                 /\ \A k \in 1..n : got[k] = win.constants[k]
                 /\ \A k \in 1..Len(src) : SaysOf(got[n + k], win.clans[src[k]])
      ]_vars

\* a source clan has moved on after the collapse that froze it, and the
\* window spawned still holds what the clan said then
C30_Witness ==
    /\ last.op \in {"work", "gate"}
    /\ \E w \in 1..Len(windows) : \E k \in 1..Len(windows[w].constants) :
          \E p \in 1..Len(windows) : \E c \in 1..Len(windows[p].clans) :
             /\ windows[p].id = windows[w].parent_window_id
             /\ windows[w].constants[k].id = ConstantId(windows[p].clans[c])
             /\ windows[p].clans[c].state = ClanFrozen
             /\ ~SaysOf(windows[w].constants[k], windows[p].clans[c])

\* a window spawned from a spawned window holds the constants of both
\* collapses
InheritedConstants ==
    \E w \in 1..Len(windows) :
        /\ Len(windows[w].constants) = 4
        /\ windows[w].parent_window_id # RootWindowId

\* the root window has spawned two windows
TwoCollapsesOfOneWindow ==
    \E w \in 1..Len(windows) : Len(windows[w].child_window_ids) = 2

----------------------------------------------------------------------------
\* gently_unified.py: the simulated git repository and Code CLI

\* str.lower over the letters the names are written with
LowerChar(c) ==
    IF c = "N" THEN "n" ELSE IF c = "M" THEN "m" ELSE IF c = "W" THEN "w" ELSE c

Lower(s) == [i \in 1..Len(s) |-> LowerChar(s[i])]

\* name.lower().replace(' ', '-')
Slug(name) == Replace(Lower(name), " ", "-")

\* GitRepo(name="gently-project")
NewGitRepo ==
    [commits |-> <<>>, branches |-> <<>>,
     current_branch |-> <<"m", "a", "i", "n">>, tags |-> {}]

\* GitRepo._hash(content), sha256 of the message and the clock reading at
\* the commit: one value per commit, written as the commit's number
CommitHash(git) == Len(git.commits) + 1

\* GitRepo.init
GitInit(git) ==
    [git EXCEPT
       !.branches = Append(@, <<"m", "a", "i", "n">>),
       !.commits = Append(@, [hash |-> CommitHash(git),
                              branch |-> <<"m", "a", "i", "n">>,
                              message |-> <<"init">>, parent_hash |-> None,
                              tags |-> <<>>, files_snapshot |-> <<>>])]

\* GitRepo.commit(message, files)
GitCommit(git, message, files) ==
    [git EXCEPT
       !.commits = Append(@, [hash |-> CommitHash(git),
                              branch |-> git.current_branch,
                              message |-> message,
                              parent_hash |-> IF git.commits # <<>>
                                              THEN git.commits[Len(git.commits)].hash
                                              ELSE None,
                              tags |-> <<>>, files_snapshot |-> files])]

\* the commit the last GitRepo.commit returned
LastCommit(git) == git.commits[Len(git.commits)]

\* GitRepo.branch(name)
GitBranch(git, name) ==
    [git EXCEPT !.branches = Append(@, name), !.current_branch = name]

\* GitRepo.tag(name, commit_hash): self.tags[name] = target, and the name
\* goes on the latest commit with that hash
GitTag(git, name, commit_hash) ==
    LET hits == { k \in 1..Len(git.commits) : git.commits[k].hash = commit_hash }
        k == CHOOSE k \in hits : \A j \in hits : j <= k
        tagged == IF hits = {} THEN git
                  ELSE [git EXCEPT !.commits[k].tags = Append(@, name)]
    IN [tagged EXCEPT !.tags = { t \in @ : t[1] # name } \cup {<<name, commit_hash>>}]

\* CodeCLI()
NewCodeCLI ==
    [working_branch |-> <<"m", "a", "i", "n">>, tasks |-> <<>>,
     output_files |-> <<>>]

\* f"task-{len(self.tasks)}"
TaskId(code) == <<"t", "a", "s", "k", "-">> \o Str(Len(code.tasks))

\* CodeCLI.execute(instruction, source_clan, files_produced, summary)
CodeExecute(code, instruction, source_clan, files, summary) ==
    [code EXCEPT
       !.tasks = Append(@, [id |-> TaskId(code), instruction |-> instruction,
                            source_clan |-> source_clan, output_files |-> files,
                            output_summary |-> summary, status |-> "done"]),
       !.output_files = @ \o files]

----------------------------------------------------------------------------
\* gently_unified.GentlyApp

\* GentlyApp._log(layer, action, detail): the entry, without its clock
\* reading and detail text
Log(a, layer, action) == [a EXCEPT !.event_log = Append(@, <<layer, action>>)]

\* GentlyApp()
NewApp ==
    [windows |-> <<>>, git |-> NewGitRepo, code |-> NewCodeCLI,
     event_log |-> <<>>]

\* GentlyWindow(id, name, parent_window_id, constants, git_branch,
\* git_commit_at_birth) of gently_unified
AppWindow(id, name, parent, constants, git_branch, birth) ==
    [id |-> id, name |-> name, parent_window_id |-> parent,
     constants |-> constants, clans |-> <<>>, git_branch |-> git_branch,
     git_commit_at_birth |-> birth, child_window_ids |-> <<>>]

\* Clan(...) as GentlyWindow.add_clan of gently_unified builds it
AppClan(win, name, gs) ==
    [id |-> WinClanId(win), name |-> name, state |-> ClanActive,
     depth |-> 0, pin |-> <<>>, gates |-> gs,
     desktop_chat_id |-> <<"c", "h", "a", "t", "-">> \o win.id \o <<"-">>
                          \o Str(Len(win.clans)),
     code_tasks |-> <<>>,
     git_branch |-> win.git_branch \o <<"/">> \o Slug(name)]

\* GentlyApp._get_window(wid): the position of the first window with that
\* id, or None
GetWindow(a, wid) ==
    LET hits == { w \in 1..Len(a.windows) : a.windows[w].id = wid }
    IN IF hits = {} THEN None ELSE CHOOSE w \in hits : \A v \in hits : w <= v

\* no clan found
NoClan == <<>>

\* GentlyApp._find_clan(cid): window and clan position of the first clan
\* with that id, windows in order, or None
FindClan(a, cid) ==
    LET hits == { wc \in (1..Len(a.windows)) \X (1..MaxClans) :
                    /\ wc[2] <= Len(a.windows[wc[1]].clans)
                    /\ a.windows[wc[1]].clans[wc[2]].id = cid }
    IN IF hits = {} THEN NoClan
       ELSE CHOOSE wc \in hits :
              \A vd \in hits : wc[1] < vd[1] \/ (wc[1] = vd[1] /\ wc[2] <= vd[2])

\* GentlyApp.init_project(name)
AppInitProjectEffect(a, name) ==
    LET git == GitInit(a.git)
        a1 == Log([a EXCEPT !.git = git], "git", "init")
        win == AppWindow(RootWindowId, name, <<>>, <<>>,
                         <<"m", "a", "i", "n">>, LastCommit(git).hash)
        a2 == Log([a1 EXCEPT !.windows = Append(@, win)], "desktop", "window-open")
        a3 == [a2 EXCEPT !.code.working_branch = <<"m", "a", "i", "n">>]
    IN Log(a3, "code", "branch-switch")

\* GentlyApp.add_clan(window_id, name, context, gates), the window found
AppAddClanEffect(a, w, name, gs) ==
    LET clan == AppClan(a.windows[w], name, gs)
        git == GitCommit(GitBranch(a.git, clan.git_branch),
                         <<"clan-start", name>>,
                         <<Lower(name) \o <<"/", "context.md">>>>)
        a1 == [a EXCEPT !.windows[w].clans = Append(@, clan), !.git = git]
    IN Log(Log(Log(Log(a1, "git", "branch"), "git", "commit"),
               "desktop", "new-chat"), "code", "context-update")

\* instruction[:40]
InstructionLen == 40
\* new_pin[:30]
ProgressPinLen == 30

\* GentlyApp.code_execute(clan_id, instruction, files_produced, summary),
\* the clan found at wc
AppCodeExecuteEffect(a, wc, instruction, files, summary) ==
    LET clan == a.windows[wc[1]].clans[wc[2]]
        a1 == Log([a EXCEPT !.code.working_branch = clan.git_branch],
                  "code", "branch-switch")
        task == TaskId(a1.code)
        a2 == [a1 EXCEPT
                 !.code = CodeExecute(@, instruction, clan.id, files, summary),
                 !.windows[wc[1]].clans[wc[2]].code_tasks = Append(@, task)]
        a3 == Log(a2, "code", "execute")
        a4 == [a3 EXCEPT !.git = GitCommit([@ EXCEPT !.current_branch = clan.git_branch],
                                           <<"code", Take(instruction, InstructionLen)>>,
                                           files)]
    IN Log(a4, "git", "commit")

\* for letter, state in gate_updates.items(): every gate with the letter
\* takes the state
UpdateGates(gs, updates) ==
    LET RECURSIVE Upd(_, _)
        Upd(g, k) ==
            IF k > Len(updates) THEN g
            ELSE Upd([i \in 1..Len(g) |->
                        IF g[i].letter = updates[k][1]
                        THEN [g[i] EXCEPT !.state = updates[k][2]]
                        ELSE g[i]], k + 1)
    IN Upd(gs, 1)

\* GentlyApp.clan_progress(clan_id, new_depth, new_pin, gate_updates), the
\* clan found at wc
AppClanProgressEffect(a, wc, new_depth, new_pin, updates) ==
    LET clan == a.windows[wc[1]].clans[wc[2]]
        a1 == [a EXCEPT
                 !.windows[wc[1]].clans[wc[2]] =
                     [@ EXCEPT !.depth = new_depth, !.pin = new_pin,
                               !.gates = UpdateGates(@, updates)],
                 !.git = GitCommit([@ EXCEPT !.current_branch = clan.git_branch],
                                   <<"progress", new_depth,
                                     Take(new_pin, ProgressPinLen)>>,
                                   <<"state.json">>)]
    IN Log(Log(a1, "desktop", "progress"), "git", "commit")

\* f"const/{clan.name.lower().replace(' ', '-')}"
ConstTag(clan) == <<"c", "o", "n", "s", "t", "/">> \o Slug(clan.name)

\* Constant(...) as GentlyApp.collapse builds it
AppConstant(clan, tag_name, hash) ==
    [id |-> ConstantId(clan), source_name |-> clan.name, summary |-> clan.pin,
     gate_snapshot |-> [i \in 1..Len(clan.gates) |->
                          [letter |-> clan.gates[i].letter,
                           state |-> clan.gates[i].state]],
     git_tag |-> tag_name, git_commit_hash |-> hash, depth |-> clan.depth]

\* one turn of the freeze loop of collapse, for the clan at position c of
\* window w; acc holds the app and new_constants
FreezeClan(acc, w, c, new_window_name) ==
    LET a == acc.app
        clan == a.windows[w].clans[c]
        git1 == GitCommit([a.git EXCEPT !.current_branch = clan.git_branch],
                          <<"FROZEN", clan.name, new_window_name>>,
                          <<"state.json", "final_stamp.txt">>)
        hash == LastCommit(git1).hash
        git2 == GitTag(git1, ConstTag(clan), hash)
        a1 == [a EXCEPT !.windows[w].clans[c].state = ClanFrozen, !.git = git2]
        a2 == Log(Log(Log(a1, "git", "freeze"), "git", "tag"), "desktop", "freeze")
    IN [app |-> a2,
        constants |-> Append(acc.constants, AppConstant(clan, ConstTag(clan), hash))]

\* f"win-{random.randint(1000,9999)}"
AppChildId(rnd) == <<"w", "i", "n", "-">> \o Str(rnd)

\* f"window/{new_window_name.lower().replace(' ', '-')}"
WindowBranch(name) == <<"w", "i", "n", "d", "o", "w", "/">> \o Slug(name)

\* GentlyApp.collapse(window_id, clan_ids, new_window_name) with the window
\* found at w and at least two sources at the positions src
AppCollapseEffect(a, w, src, new_window_name, rnd) ==
    LET order == Ascending(src)
        RECURSIVE Loop(_, _)
        Loop(acc, k) == IF k > Len(order) THEN acc
                        ELSE Loop(FreezeClan(acc, w, order[k], new_window_name), k + 1)
        a0 == Log(a, "desktop", "COLLAPSE")
        done == Loop([app |-> a0, constants |-> a0.windows[w].constants], 1)
        b == done.app
        new_branch == WindowBranch(new_window_name)
        git1 == GitCommit(GitBranch(b.git, new_branch),
                          <<"COLLAPSE",
                            [k \in 1..Len(order) |-> b.windows[w].clans[order[k]].name],
                            new_window_name>>,
                          <<"constants.json", "synthesis_prompt.md">>)
        merge == LastCommit(git1).hash
        git2 == GitTag(git1, new_branch \o <<"/", "b", "i", "r", "t", "h">>, merge)
        b1 == Log(Log([b EXCEPT !.git = git2], "git", "branch"), "git", "merge-commit")
        child == AppWindow(AppChildId(rnd), new_window_name, b.windows[w].id,
                           done.constants, new_branch, merge)
        b2 == [b1 EXCEPT !.windows = Append([@ EXCEPT ![w].child_window_ids =
                                                 Append(@, child.id)], child)]
        b3 == Log(Log(b2, "desktop", "window-open"), "desktop", "constants-loaded")
        b4 == Log(Log([b3 EXCEPT !.code.working_branch = new_branch],
                      "code", "branch-switch"), "code", "context-update")
    IN Log(b4, "desktop", "synthesis-prompt")

\* most calls made on the GentlyApp
MaxAppCalls == 2

\* the inputs of the GentlyApp
AppClanNames == { <<"N">>, <<"M">> }
AppGateSets == { <<NewGate("A", "q")>> }
GateUpdates == { <<>>, << <<"A", GlyphNo>> >> }
Instructions == { <<"d", "o">> }
FilesProduced == { <<"f.py">> }

\* the ids of the clans there are, and one that names nothing
AppClanIds(a) ==
    UNION { { a.windows[w].clans[c].id : c \in 1..Len(a.windows[w].clans) } :
            w \in 1..Len(a.windows) }
    \cup {BogusId}

AppWindowIds(a) == { a.windows[w].id : w \in 1..Len(a.windows) } \cup {BogusId}

\* app.init_project(name), before or after its first two or four add_clan
\* calls
AppStarts ==
    LET a0 == AppInitProjectEffect(NewApp, <<"W">>)
        a1 == AppAddClanEffect(a0, 1, <<"N">>, <<NewGate("A", "q")>>)
        a2 == AppAddClanEffect(a1, 1, <<"M">>, <<NewGate("A", "q")>>)
        a3 == AppAddClanEffect(a2, 1, <<"N">>, <<NewGate("A", "q")>>)
        a4 == AppAddClanEffect(a3, 1, <<"M">>, <<NewGate("A", "q")>>)
    IN {a0, a2, a4}

\* every program but the GentlyApp stays as it started
AppFrame ==
    /\ calls' = calls + 1
    /\ UNCHANGED <<gates, tiers, artifacts, bucket>>
    /\ UNCHANGED thrVars
    /\ UNCHANGED codecVars
    /\ UNCHANGED <<saved, workbench, windows>>

AppInit ==
    /\ gates = <<>>
    /\ tiers = <<>>
    /\ artifacts = <<>>
    /\ bucket = <<>>
    /\ last = Call("none", None, None)
    /\ calls = 0
    /\ ThreadsIdle
    /\ CodecIdle
    /\ saved = None
    /\ workbench = None
    /\ windows = <<>>
    /\ app \in AppStarts

\* app.add_clan(window_id, name, context, gates)
AppAddClan(window_id, name, gs) ==
    /\ calls < MaxAppCalls
    /\ LET w == GetWindow(app, window_id)
       IN IF w = None
          THEN /\ app' = app
               /\ last' = Call("add_clan", window_id, NoClan)
          ELSE /\ Len(app.windows[w].clans) < MaxClans
               /\ app' = AppAddClanEffect(app, w, name, gs)
               /\ last' = Call("add_clan", window_id, <<w, Len(app.windows[w].clans) + 1>>)
    /\ AppFrame

\* app.code_execute(clan_id, instruction, files_produced, summary)
AppCodeExecute(clan_id, instruction, files) ==
    /\ calls < MaxAppCalls
    /\ LET wc == FindClan(app, clan_id)
       IN IF wc = NoClan
          THEN /\ app' = app
               /\ last' = Call("code_execute", clan_id, NoClan)
          ELSE /\ app' = AppCodeExecuteEffect(app, wc, instruction, files, <<>>)
               /\ last' = Call("code_execute", clan_id, wc)
    /\ AppFrame

\* app.clan_progress(clan_id, new_depth, new_pin, gate_updates)
AppClanProgress(clan_id, new_depth, new_pin, updates) ==
    /\ calls < MaxAppCalls
    /\ LET wc == FindClan(app, clan_id)
       IN IF wc = NoClan
          THEN /\ app' = app
               /\ last' = Call("clan_progress", clan_id, NoClan)
          ELSE /\ app' = AppClanProgressEffect(app, wc, new_depth, new_pin, updates)
               /\ last' = Call("clan_progress", clan_id, wc)
    /\ AppFrame

\* app.collapse(window_id, clan_ids, new_window_name)
AppCollapse(window_id, clan_ids, name, rnd) ==
    /\ calls < MaxAppCalls
    /\ LET w == GetWindow(app, window_id)
           src == IF w = None THEN {} ELSE WinSources(app.windows[w], clan_ids)
       IN IF Cardinality(src) < 2
          THEN /\ app' = app
               /\ last' = Call("collapse", <<window_id, clan_ids>>, None)
          ELSE /\ app' = AppCollapseEffect(app, w, src, name, rnd)
               /\ last' = Call("collapse", <<window_id, clan_ids>>, Len(app.windows) + 1)
    /\ AppFrame

AppNext ==
    \/ \E wid \in AppWindowIds(app), name \in AppClanNames, gs \in AppGateSets :
          AppAddClan(wid, name, gs)
    \/ \E cid \in AppClanIds(app), ins \in Instructions, fs \in FilesProduced :
          AppCodeExecute(cid, ins, fs)
    \/ \E cid \in AppClanIds(app), d \in WinDepths, pin \in WinPins,
          up \in GateUpdates : AppClanProgress(cid, d, pin, up)
    \/ \E wid \in AppWindowIds(app), name \in WindowNames, rnd \in RandomIds :
          \E ids \in SUBSET (AppClanIds(app)) : AppCollapse(wid, ids, name, rnd)

SpecUnified == AppInit /\ [][AppNext]_vars

\* the hashes of the commits on a branch
CommitsOn(git, branch) ==
    { git.commits[k].hash : k \in { k \in 1..Len(git.commits) :
                                      git.commits[k].branch = branch } }

\* C28: a clan frozen by collapse is read-only: a clan_progress or
\* code_execute call that names a frozen clan changes neither its depth,
\* pin, gate states nor its task list, and adds no commit to its git branch.
C28_FrozenClanReadOnly ==
    [][ ( /\ Called("clan_progress") \/ Called("code_execute")
          /\ last'.ret # NoClan
          /\ app.windows[last'.ret[1]].clans[last'.ret[2]].state = ClanFrozen )
        => LET was == app.windows[last'.ret[1]].clans[last'.ret[2]]
               is == app'.windows[last'.ret[1]].clans[last'.ret[2]]
           IN /\ is.depth = was.depth
              /\ is.pin = was.pin
              /\ is.gates = was.gates
              /\ is.code_tasks = was.code_tasks
              /\ CommitsOn(app'.git, was.git_branch) = CommitsOn(app.git, was.git_branch)
      ]_vars

\* what the code does keep of a frozen clan: it stays frozen
FrozenStaysFrozen ==
    [][ \A w \in 1..Len(app.windows) : \A c \in 1..Len(app.windows[w].clans) :
           app.windows[w].clans[c].state = ClanFrozen =>
              app'.windows[w].clans[c].state = ClanFrozen ]_vars

\* C29: constants are immutable git-tag references: in every state, for
\* every Constant a window holds, the tag table of the repository maps the
\* constant's git_tag to the constant's git_commit_hash.
C29_ConstantTagsResolve ==
    \A w \in 1..Len(app.windows) : \A k \in 1..Len(app.windows[w].constants) :
        <<app.windows[w].constants[k].git_tag,
          app.windows[w].constants[k].git_commit_hash>> \in app.git.tags

\* the commit a Constant names exists and is the freeze commit on the
\* branch of a clan of that name, whatever the tag table says
ConstantCommitExists ==
    \A w \in 1..Len(app.windows) : \A k \in 1..Len(app.windows[w].constants) :
        \E n \in 1..Len(app.git.commits) :
            /\ app.git.commits[n].hash = app.windows[w].constants[k].git_commit_hash
            /\ app.git.commits[n].message[1] = "FROZEN"
            /\ app.git.commits[n].message[2] = app.windows[w].constants[k].source_name

----------------------------------------------------------------------------
\* collapse in gently_windows.py and in gently_unified.py, side by side: a
\* behaviour runs one of the two programs

CollapseInit == WinInit \/ AppInit

\* a step of the GentlyApp, which the behaviours of the windows do not have
AppStep == windows = <<>> /\ AppNext

CollapseNext == WinNext \/ AppStep

SpecCollapse == CollapseInit /\ [][CollapseNext]_vars

\* the clans of win that are ACTIVE and named in ids, by position
ActiveNamed(win, ids) ==
    { c \in 1..Len(win.clans) :
        win.clans[c].state = ClanActive /\ win.clans[c].id \in ids }

\* the constants of the window spawned beyond those of its parent come from
\* clans of the parent that were not frozen
FromUnfrozen(parent, child) ==
    /\ Len(child.constants) >= Len(parent.constants) + 2
    /\ \A k \in (Len(parent.constants) + 1)..Len(child.constants) :
          \A c \in 1..Len(parent.clans) :
             parent.clans[c].state = ClanFrozen =>
                child.constants[k].id # ConstantId(parent.clans[c])

\* C31: collapse, in gently_windows and in gently_unified alike, with fewer
\* than two ACTIVE clans of the window among the given ids returns no result
\* and changes nothing (no clan frozen, no window, commit, tag or log entry
\* added); and a collapse that does return a window took none of its
\* constants from a clan that was frozen already.
C31_CollapseNeedsTwoActive ==
    [][ Called("collapse") =>
          IF windows # <<>>
          THEN LET win == windows[last'.arg[1]]
               IN /\ Cardinality(ActiveNamed(win, last'.arg[2])) < 2 =>
                        (last'.ret = None /\ windows' = windows)
                  /\ last'.ret # None =>
                        FromUnfrozen(win, windows'[last'.ret])
          ELSE LET hits == { w \in 1..Len(app.windows) :
                               app.windows[w].id = last'.arg[1] }
                   few == \/ hits = {}
                          \/ \E v \in hits :
                                /\ \A u \in hits : v <= u
                                /\ Cardinality(ActiveNamed(app.windows[v], last'.arg[2])) < 2
               IN /\ few => (last'.ret = None /\ app' = app)
                  /\ last'.ret # None =>
                        \E w \in hits :
                            FromUnfrozen(app.windows[w], app'.windows[last'.ret])
      ]_vars

\* a collapse of a window of gently_windows named a clan an earlier
\* collapse froze, and came back empty-handed
C31_Witness ==
    /\ windows # <<>>
    /\ last.op = "collapse"
    /\ last.ret = None
    /\ \E c \in 1..Len(windows[last.arg[1]].clans) :
          /\ windows[last.arg[1]].clans[c].state = ClanFrozen
          /\ windows[last.arg[1]].clans[c].id \in last.arg[2]

\* the same in gently_unified
CollapseOfFrozenInApp ==
    /\ windows = <<>>
    /\ last.op = "collapse"
    /\ last.ret = None
    /\ \E w \in 1..Len(app.windows) : \E c \in 1..Len(app.windows[w].clans) :
          /\ app.windows[w].id = last.arg[1]
          /\ app.windows[w].clans[c].state = ClanFrozen
          /\ app.windows[w].clans[c].id \in last.arg[2]

----------------------------------------------------------------------------
\* Invariants of the tier engine, one caller at a time

\* C32: once the Project has a tier, the tiers are a frozen prefix followed
\* by exactly one unfrozen tier: every tier but the last is frozen and the
\* last is not, so the current tier is the last one.
C32_FrozenPrefix ==
    tiers # <<>> =>
        /\ ~tiers[Len(tiers)].frozen
        /\ \A i \in 1..(Len(tiers) - 1) : tiers[i].frozen
        /\ LastUnfrozen(tiers) = Len(tiers)

\* a Branch forked after two promotions, on the third tier
C32_Witness ==
    /\ last.op = "branch_from_master"
    /\ Len(tiers) = 3
    /\ tiers[3].branches # <<>>

\* the TIER_AUTO artifacts, by position
Autos == { k \in 1..Len(artifacts) : artifacts[k].origin = "tier-auto" }

\* C33: promotion bookkeeping is consistent: a tier is frozen iff its
\* frozen_stamp and promoted_by are non-empty; the promoted_by of a frozen
\* tier is the id of a bucket artifact with status 'injected'; there are as
\* many TIER_AUTO artifacts as frozen tiers, exactly one per frozen level;
\* and every bucket member is a MANUAL artifact of the artifact list.
C33_PromotionBookkeeping ==
    /\ \A i \in 1..Len(tiers) :
          /\ tiers[i].frozen <=>
                (tiers[i].frozen_stamp # <<>> /\ tiers[i].promoted_by # <<>>)
          /\ tiers[i].frozen =>
                /\ \E j \in 1..Len(bucket) :
                      /\ artifacts[bucket[j]].id = tiers[i].promoted_by
                      /\ artifacts[bucket[j]].status = "injected"
                /\ Cardinality({ k \in Autos :
                                   artifacts[k].source_tier = tiers[i].level }) = 1
    /\ Cardinality(Autos) = Cardinality({ i \in 1..Len(tiers) : tiers[i].frozen })
    /\ \A j \in 1..Len(bucket) :
          /\ bucket[j] \in 1..Len(artifacts)
          /\ artifacts[bucket[j]].origin = "manual"

\* two tiers frozen, each with its automatic artifact, and two artifacts in
\* the bucket
C33_Witness ==
    /\ Cardinality(Autos) = 2
    /\ Len(bucket) = 2
    /\ tiers[1].frozen /\ tiers[2].frozen

\* C34: the ids of the artifacts of the Project are pairwise distinct, also
\* after an artifact was injected more than once.
C34_ArtifactIdsDistinct ==
    \A j, k \in 1..Len(artifacts) :
        artifacts[j].id = artifacts[k].id => j = k

\* one artifact injected twice: two tiers promoted by the same id
C34_Witness ==
    /\ Len(tiers) >= 3
    /\ tiers[1].promoted_by = tiers[2].promoted_by
    /\ tiers[2].frozen

----------------------------------------------------------------------------
\* Invariants of the gently_model Project

\* C35: the ids of the branches of the gently_model Project are pairwise
\* distinct, also after forks with the same name, so that a branch id names
\* the branch that was created with it.
C35_BranchIdsDistinct ==
    \A i, j \in 1..Len(workbench.branches) :
        workbench.branches[i].id = workbench.branches[j].id => i = j

\* what the code does keep: the artifact goes to the first branch with the id
CollectGoesToFirst ==
    [][ (Called("collect_from_branch") /\ last'.ret # None) =>
           \E k \in 1..Len(workbench.branches) :
               /\ workbench.branches[k].id = last'.arg
               /\ \A j \in 1..(k - 1) : workbench.branches[j].id # last'.arg
               /\ workbench'.branches[k].artifacts =
                     Append(workbench.branches[k].artifacts, last'.ret)
      ]_vars

\* C37: INJECTED is a final status of an Artifact of the gently_model
\* Project: once inject_to_master has marked an artifact INJECTED no later
\* call changes its status; and the master depth goes up by exactly 1 on an
\* inject_to_master that finds its artifact, and not at all on one that does
\* not.
C37_InjectedIsFinal ==
    [][ /\ \A k \in 1..Len(workbench.bucket) :
              workbench.bucket[k].status = StatusInjected =>
                 workbench'.bucket[k].status = StatusInjected
        /\ Called("inject_to_master") =>
              workbench'.master.depth =
                 workbench.master.depth + (IF last'.ret # None THEN 1 ELSE 0)
      ]_vars

\* the half of C37 the code keeps: the depth counts the successful injects
DepthCountsInjects ==
    [][ /\ Called("inject_to_master") =>
              workbench'.master.depth =
                 workbench.master.depth + (IF last'.ret # None THEN 1 ELSE 0)
        /\ ~Called("inject_to_master") =>
              workbench'.master.depth = workbench.master.depth
      ]_vars

----------------------------------------------------------------------------
\* The Gate classes compared

\* the gate states all three Gate classes have
SharedGateStates == TierGateStates \cap StampGateStates

\* C36: the Gate.cycle implementations agree: on a gate in a state they
\* share (OPEN, HALF, YES, NO, REVISIT), cycle of stamp.py leaves the state
\* that cycle of gently_tiers.py and gently_model.py leaves, and the other
\* way round.
C36_CyclesAgree ==
    [][ /\ (Called("stamp_cycle")
             /\ stamp.gates[Target(stamp.gates)].state \in SharedGateStates) =>
              stamp'.gates[Target(stamp.gates)].state
                 = TierGateCycle(stamp.gates[Target(stamp.gates)]).state
        /\ (Called("cycle") /\ gates[Target(gates)].state \in SharedGateStates) =>
              gates'[Target(gates)].state
                 = StampGateCycle(gates[Target(gates)]).state
      ]_vars

\* on OPEN, HALF, YES and NO they do agree
CyclesAgreeOnFour ==
    [][ /\ (Called("stamp_cycle")
             /\ stamp.gates[Target(stamp.gates)].state \in FourStates) =>
              stamp'.gates[Target(stamp.gates)].state
                 = TierGateCycle(stamp.gates[Target(stamp.gates)]).state
        /\ (Called("cycle") /\ gates[Target(gates)].state \in FourStates) =>
              gates'[Target(gates)].state
                 = StampGateCycle(gates[Target(gates)]).state
      ]_vars

----------------------------------------------------------------------------
\* Ids of the GentlyApp

\* C38: every window of app.windows has an id of its own, whatever values
\* the random suffix takes, so that _get_window(id) gives the window created
\* with that id.
C38_WindowIdsDistinct ==
    \A i, j \in 1..Len(app.windows) :
        app.windows[i].id = app.windows[j].id => i = j

\* what the code does keep: within one window the clan ids are distinct
ClanIdsDistinctInWindow ==
    \A w \in 1..Len(app.windows) : \A c, d \in 1..Len(app.windows[w].clans) :
        app.windows[w].clans[c].id = app.windows[w].clans[d].id => c = d

----------------------------------------------------------------------------
\* The stamps of the tier engine under Stamp.parse_compact

\* what parse_compact makes of a stamp rendered for tier t under gates gs:
\* a Stamp with the depth, state, gates and parent of the tier
DecodesTo(ln, t, gs) ==
    LET r == ParseCompact(ln)
    IN /\ r.kind = "stamp"
       /\ r.stamp.depth = t.master_depth
       /\ r.stamp.state = t.master_state
       /\ Len(r.stamp.gates) = Len(gs)
       /\ \A i \in 1..Len(gs) :
              /\ r.stamp.gates[i].letter = gs[i].letter
              /\ r.stamp.gates[i].state = gs[i].state
       /\ r.stamp.parent = IF t.level > 0 THEN <<"t">> \o Str(t.level - 1)
                           ELSE <<>>

\* C39: every stamp the tier engine stores (stamp_at_fork, stamp_at_creation,
\* frozen_stamp) is accepted by Stamp.parse_compact and decodes to the
\* tier's master depth and state and the gate letters and states in gate-set
\* order as of the moment it was made, with parent t<level-1> exactly when
\* the level is above 0.
C39_TierStampsDecode ==
    [][ \A op \in {"branch_from_master", "collect_artifact", "inject"} :
          Renders(op) =>
            DecodesTo(RenderedBy(op).stamp, RenderedBy(op).tier, gates')
      ]_vars

\* the pin of tier t holds no field separator
SeparatorFreePin(t) ==
    \A i \in 1..Len(t.master_pin) : t.master_pin[i] # "|"

\* C39 for the tiers whose pin holds no field separator
TierStampsDecodeSansSeparator ==
    [][ \A op \in {"branch_from_master", "collect_artifact", "inject"} :
          (Renders(op) /\ SeparatorFreePin(RenderedBy(op).tier)) =>
            DecodesTo(RenderedBy(op).stamp, RenderedBy(op).tier, gates')
      ]_vars

\* a stamp of each kind has been stored at level 1, with gates set
StampsStoredAtLevelOne ==
    /\ Len(tiers) >= 2 /\ tiers[1].frozen /\ gates # <<>>
    /\ tiers[2].branches # <<>>
    /\ \E k \in 1..Len(artifacts) : artifacts[k].source_tier = 1

====
